---- MODULE Spec2Model ----
(***************************************************************************)
(* Model of the outdoor-sports-reporter pipeline (newsletter_tools.py and   *)
(* run_newsletter.py): the three file caches with their TTLs, the          *)
(* concurrent per-source fetch, the batched AI enrichment and the run      *)
(* driver.  Each part has its own specification over the shared state.     *)
(***************************************************************************)
EXTENDS Integers, Sequences, FiniteSets, TLC

VARIABLES
    now,        \* wall clock, in seconds (datetime.now().timestamp())
    ticks,      \* number of clock advances so far
    files,      \* the cache directories: [namespace, key] -> file
    saves,      \* number of cache writes so far
    written,    \* history: time of the last completed write of an entry, -1 if none
    lastOp,     \* history: the last cache operation and what it returned
    config,     \* the run's configuration: credential, model, prompt
    articles_list,              \* process_articles_with_ai: its input
    epc,                        \* process_articles_with_ai: where it is
    cached_articles,            \* records taken from the cache (step 1)
    articles_to_process,        \* the cache misses (step 1)
    batches,                    \* the batches submitted to the pool
    bstate,                     \* per batch task: where it is
    bwork,                      \* per batch task: its own cache split
    bresult,                    \* per batch task: the list it returned
    collected,                  \* batch futures the caller has consumed
    newly_processed_articles,   \* records gathered from the futures
    all_processed_articles,     \* the merged list handed to the renderer
    markdown_text,              \* what process_articles_with_ai returned
    service_log,                \* history: requests sent to the service
    write_faults,               \* how many cache writes of the run may still fail
    wstate,     \* concurrent cache users: per worker, the call it is in
    lastLoad,   \* history: the last read of a concurrent cache user
    env,                        \* os.environ, the proxy variables of it
    _original_proxy_settings,   \* the proxy settings saved at import
    submit_env,                 \* history: os.environ when the tasks were submitted
    rss_feeds,                  \* the sources that have a feed URL
    tasks,                      \* fetch pool: per source, its task
    fpc,                        \* fetch_articles: where it is
    finished,                   \* fetch futures in their order of completion
    ncollected,                 \* how many of them fetch_articles has consumed
    articles,                   \* fetch_articles: the list it builds
    req_log,                    \* history: the network context of each request
    rpc,                        \* run_newsletter_task: where it is
    run_result,                 \* run_newsletter_task: how it ended
    fetch_ran,                  \* history: fetch_articles was called
    entry,                      \* the entry point main() took
    args,                       \* the arguments of run_newsletter_task
    out_files,                  \* the files the driver has written
    article_count,              \* the article count the driver reports
    stage_log,                  \* history: the stages called, in order
    pool_pc,                    \* the two pools of a run: which stage the run is in
    fetch_pool,                 \* the fetch pool: per submitted task, its state
    enrich_pool,                \* the enrichment pool: per submitted batch, its state
    run_no,                     \* enrichment: 1 in the first run, 2 in a later one
    failed_urls,                \* history: the items whose enrichment failed in run 1
    first_sent,                 \* history: the number of requests run 1 sent
    feed,                       \* _fetch_from_rss: the entries of the parsed feed
    rss_result,                 \* _fetch_from_rss: what it returned
    md_input,                   \* _generate_markdown: its input list
    md_result,                  \* _generate_markdown: what it returned
    ppc,                        \* publish_feishu_report: where it is
    collaborator_openids,       \* publish_feishu_report: the list passed to it
    env_openids,                \* the ids of FEISHU_COLLABORATOR_OPENIDS
    openids,                    \* the ids the grant loop has still to take
    api_log,                    \* history: the calls made to the document service
    publish_result,             \* publish_feishu_report: how it ended
    chat_id                     \* publish_feishu_report: the chat id it was given

cacheVars == <<now, ticks, files, saves, written, lastOp>>

enrichVars == <<config, articles_list, epc, cached_articles,
                articles_to_process, batches, bstate, bwork, bresult,
                collected, newly_processed_articles, all_processed_articles,
                markdown_text, service_log, write_faults>>

concVars == <<wstate, lastLoad>>

fetchVars == <<env, _original_proxy_settings, submit_env, rss_feeds, tasks,
               fpc, finished, ncollected, articles, req_log>>

runVars == <<rpc, run_result, fetch_ran, entry, stage_log, args, out_files,
            article_count>>

poolVars == <<pool_pc, fetch_pool, enrich_pool>>

rerunVars == <<run_no, failed_urls, first_sent>>

pureVars == <<feed, rss_result, md_input, md_result>>

publishVars == <<ppc, collaborator_openids, env_openids, openids, api_log,
                 publish_result, chat_id>>

vars == <<cacheVars, enrichVars, concVars, fetchVars, runVars, poolVars,
          rerunVars, pureVars, publishVars>>

\* What the actions of one part leave alone.
otherThanCache == <<enrichVars, concVars, fetchVars, runVars,
                   poolVars, rerunVars, pureVars, publishVars>>

otherThanEnrich == <<concVars, fetchVars, runVars,
                   poolVars, rerunVars, pureVars, publishVars>>

otherThanConc == <<enrichVars, fetchVars, runVars,
                   poolVars, rerunVars, pureVars, publishVars>>

otherThanFetch == <<enrichVars, concVars, runVars,
                   poolVars, rerunVars, pureVars, publishVars>>

(***************************************************************************)
(* Bounds of the model.                                                    *)
(***************************************************************************)
MaxTicks == 2

MaxSaves == 1

(***************************************************************************)
(* Cache configuration (newsletter_tools.py, lines 86-96).                 *)
(***************************************************************************)
RSS_CACHE_TTL == 3600

HTML_CACHE_TTL == 3600 * 6

AI_CACHE_TTL == 86400 * 7

Namespaces == {"rss", "html", "ai"}

CacheKeys == {"u1", "u2"}

Payloads == {"p1"}

TTL(ns) ==
    CASE ns = "rss" -> RSS_CACHE_TTL
      [] ns = "html" -> HTML_CACHE_TTL
      [] ns = "ai" -> AI_CACHE_TTL

\* A cache file: exists (os.path.exists), mtime (os.path.getmtime), intact
\* (its bytes parse: json.load / pickle.load succeed) and the payload stored.
NoFile(p) == [exists |-> FALSE, mtime |-> 0, intact |-> FALSE, payload |-> p]

Miss == [hit |-> FALSE, raised |-> FALSE]

Hit(p) == [hit |-> TRUE, raised |-> FALSE, value |-> p]

Raised == [hit |-> FALSE, raised |-> TRUE]

(***************************************************************************)
(* load_rss_from_cache / load_html_from_cache / load_ai_from_cache: the    *)
(* three readers share one body.  f is the file at the cache path, t the   *)
(* current time, ioFail an I/O error while opening or reading the file.    *)
(***************************************************************************)
TryLoadFile(f, ttl, t, ioFail) ==
    IF t - f.mtime > ttl THEN Miss               \* expired -> None
    ELSE IF ioFail \/ ~f.intact THEN Raised      \* open / load raises
    ELSE Hit(f.payload)

\* The reader without its except clause: the error leaves the function.
LoadFile_NoExcept(f, ttl, t, ioFail) ==
    IF ~f.exists THEN Miss ELSE TryLoadFile(f, ttl, t, ioFail)

\* The reader with the expiry test turned around at the boundary.
LoadFile_ExpiresAtTTL(f, ttl, t, ioFail) ==
    IF ~f.exists \/ t - f.mtime >= ttl \/ ioFail \/ ~f.intact
    THEN Miss ELSE Hit(f.payload)

LoadFile(f, ttl, t, ioFail) ==
    IF ~f.exists THEN Miss                       \* not os.path.exists -> None
    ELSE LET r == TryLoadFile(f, ttl, t, ioFail) IN
         IF r.raised THEN Miss ELSE r            \* except Exception -> None

load_rss_from_cache(fs, url, t, ioFail) ==
    LoadFile(fs[<<"rss", url>>], RSS_CACHE_TTL, t, ioFail)

load_html_from_cache(fs, url, t, ioFail) ==
    LoadFile(fs[<<"html", url>>], HTML_CACHE_TTL, t, ioFail)

load_ai_from_cache(fs, url, t, ioFail) ==
    LoadFile(fs[<<"ai", url>>], AI_CACHE_TTL, t, ioFail)

LoadFrom(ns, fs, url, t, ioFail) ==
    CASE ns = "rss" -> load_rss_from_cache(fs, url, t, ioFail)
      [] ns = "html" -> load_html_from_cache(fs, url, t, ioFail)
      [] ns = "ai" -> load_ai_from_cache(fs, url, t, ioFail)

(***************************************************************************)
(* save_*_to_cache.  outcome is what the file system does:                 *)
(*   "ok"         the file is written whole                  -> True       *)
(*   "open_fails" open(path, 'w') raises, the file is as it was -> False   *)
(*   "dump_fails" open truncated the file and the dump raised   -> False   *)
(***************************************************************************)
SaveOutcomes == {"ok", "open_fails", "dump_fails"}

SaveFile(f, p, t, outcome) ==
    CASE outcome = "ok" ->
            [exists |-> TRUE, mtime |-> t, intact |-> TRUE, payload |-> p]
      [] outcome = "open_fails" -> f
      [] outcome = "dump_fails" ->
            [exists |-> TRUE, mtime |-> t, intact |-> FALSE, payload |-> p]

SaveReturn(outcome) == [ok |-> outcome = "ok", raised |-> FALSE]

save_to_cache(fs, ns, url, p, t, outcome) ==
    [fs EXCEPT ![<<ns, url>>] = SaveFile(@, p, t, outcome)]

(***************************************************************************)
(* clean_expired_cache(cache_dir, ttl): removes every file of the          *)
(* directory whose age exceeds ttl.                                        *)
(***************************************************************************)
\* The sweep that removes a file from the age of ttl on.
clean_expired_cache_AtTTL(fs, ns, ttl, t) ==
    [e \in DOMAIN fs |->
        IF e[1] = ns /\ fs[e].exists /\ t - fs[e].mtime >= ttl
        THEN NoFile(fs[e].payload)
        ELSE fs[e]]

clean_expired_cache(fs, ns, ttl, t) ==
    [e \in DOMAIN fs |->
        IF e[1] = ns /\ fs[e].exists /\ t - fs[e].mtime > ttl
        THEN NoFile(fs[e].payload)
        ELSE fs[e]]

\* The sweep with one TTL used for all three directories.
clean_all_expired_caches_OneTTL(fs, t) ==
    clean_expired_cache(
        clean_expired_cache(
            clean_expired_cache(fs, "rss", RSS_CACHE_TTL, t),
            "html", RSS_CACHE_TTL, t),
        "ai", RSS_CACHE_TTL, t)

clean_all_expired_caches(fs, t) ==
    clean_expired_cache(
        clean_expired_cache(
            clean_expired_cache(fs, "rss", RSS_CACHE_TTL, t),
            "html", HTML_CACHE_TTL, t),
        "ai", AI_CACHE_TTL, t)

(***************************************************************************)
(* Specification SpecCache: one process using the cache over time.         *)
(***************************************************************************)
TickSteps == {1} \cup {TTL(ns) : ns \in Namespaces}

NoOp == [op |-> "none", ns |-> "rss", key |-> "u1", hit |-> FALSE,
         raised |-> FALSE, ok |-> FALSE, ioFail |-> FALSE, value |-> "p1"]

(***************************************************************************)
(* The enrichment state when no enrichment is running.                     *)
(***************************************************************************)
ValidConfig == [api_key |-> TRUE, model |-> TRUE, ai_prompt |-> TRUE]

NoReport == [kind |-> "none", stated |-> 0, sections |-> <<>>,
                               sources |-> FALSE]

EnrichIdle ==
    /\ config = ValidConfig
    /\ articles_list = <<>>
    /\ epc = "idle"
    /\ cached_articles = <<>>
    /\ articles_to_process = <<>>
    /\ batches = <<>>
    /\ bstate = <<>>
    /\ bwork = <<>>
    /\ bresult = <<>>
    /\ collected = {}
    /\ newly_processed_articles = <<>>
    /\ all_processed_articles = <<>>
    /\ markdown_text = NoReport
    /\ service_log = <<>>
    /\ write_faults = 0

NotRun == [kind |-> "none"]

PublishIdle ==
    /\ ppc = "idle"
    /\ collaborator_openids = <<>>
    /\ env_openids = <<>>
    /\ openids = <<>>
    /\ api_log = <<>>
    /\ publish_result = "none"
    /\ chat_id = "None"

PureIdle ==
    /\ feed = <<>>
    /\ rss_result = NotRun
    /\ md_input = <<>>
    /\ md_result = NotRun

RerunIdle ==
    /\ run_no = 1
    /\ failed_urls = {}
    /\ first_sent = 0

PoolIdle ==
    /\ pool_pc = "idle"
    /\ fetch_pool = <<>>
    /\ enrich_pool = <<>>

RunIdle ==
    /\ rpc = "idle"
    /\ run_result = "none"
    /\ fetch_ran = FALSE
    /\ entry = "run_newsletter_task"
    /\ stage_log = <<>>
    /\ args = [days_back |-> "None", start_date |-> "None", end_date |-> "None"]
    /\ out_files = {}
    /\ article_count = 0

ConcIdle ==
    /\ wstate = <<>>
    /\ lastLoad = [worker |-> 0, key |-> "u1", during_write |-> FALSE,
                   hit |-> FALSE]

(***************************************************************************)
(* The process environment and the fetch state when no fetch is running.   *)
(***************************************************************************)
\* The variables clear_all_proxy pops (lines 336-342).
proxy_vars == {"HTTP_PROXY", "HTTPS_PROXY", "ALL_PROXY",
               "http_proxy", "https_proxy", "all_proxy",
               "HTTP_PROXY_HOST", "HTTP_PROXY_PORT",
               "HTTPS_PROXY_HOST", "HTTPS_PROXY_PORT",
               "NO_PROXY", "no_proxy"}

\* The keys of _original_proxy_settings (lines 80-84).
saved_vars == {"HTTP_PROXY", "HTTPS_PROXY", "ALL_PROXY"}

\* An unset variable is "".
EmptyEnv == [k \in proxy_vars |-> ""]

FetchIdle ==
    /\ env = EmptyEnv
    /\ _original_proxy_settings = [k \in saved_vars |-> ""]
    /\ submit_env = EmptyEnv
    /\ rss_feeds = {}
    /\ tasks = <<>>
    /\ fpc = "idle"
    /\ finished = <<>>
    /\ ncollected = 0
    /\ articles = <<>>
    /\ req_log = {}

CacheInit ==
    /\ now = 0
    /\ ticks = 0
    /\ saves = 0
    /\ files = [e \in Namespaces \X CacheKeys |-> NoFile("p1")]
    /\ written = [e \in Namespaces \X CacheKeys |-> -1]
    /\ lastOp = NoOp
    /\ EnrichIdle
    /\ ConcIdle
    /\ FetchIdle
    /\ RunIdle
    /\ PoolIdle
    /\ RerunIdle
    /\ PureIdle
    /\ PublishIdle

\* Time passes.
Tick ==
    /\ ticks < MaxTicks
    /\ \E d \in TickSteps : now' = now + d
    /\ ticks' = ticks + 1
    /\ lastOp' = NoOp
    /\ UNCHANGED <<files, saves, written>>
    /\ UNCHANGED otherThanCache

\* A reader calls load_<ns>_from_cache(key).
CacheLoad ==
    \E ns \in Namespaces, k \in CacheKeys, ioFail \in BOOLEAN :
        LET r == LoadFrom(ns, files, k, now, ioFail) IN
        /\ lastOp' = [op |-> "load", ns |-> ns, key |-> k, hit |-> r.hit,
                      raised |-> r.raised, ok |-> FALSE, ioFail |-> ioFail,
                      value |-> IF r.hit THEN r.value ELSE "p1"]
        /\ UNCHANGED <<now, ticks, files, saves, written>>
        /\ UNCHANGED otherThanCache

\* A writer calls save_<ns>_to_cache(key, p).
CacheSave ==
    /\ saves < MaxSaves
    /\ saves' = saves + 1
    /\ \E ns \in Namespaces, k \in CacheKeys, p \in Payloads, o \in SaveOutcomes :
        LET r == SaveReturn(o) IN
        /\ files' = save_to_cache(files, ns, k, p, now, o)
        /\ written' = [written EXCEPT ![<<ns, k>>] =
                          CASE o = "ok" -> now
                            [] o = "open_fails" -> @
                            [] o = "dump_fails" -> -1]
        /\ lastOp' = [op |-> "save", ns |-> ns, key |-> k, hit |-> FALSE,
                      raised |-> r.raised, ok |-> r.ok, ioFail |-> o # "ok",
                      value |-> p]
        /\ UNCHANGED <<now, ticks>>
        /\ UNCHANGED otherThanCache

\* The start-up sweep.
\* The files a sweep at time t has to remove.
ExpiredEntries(fs, t) ==
    {e \in DOMAIN fs :
        fs[e].exists /\ clean_all_expired_caches(fs, t)[e] # fs[e]}

\* The files after a sweep in which a file operation raised: the except
\* branch ends the loop of that namespace (lines 119-143) and the files it
\* had not come to, kept, stay.
SweepKeeping(fs, t, kept) ==
    [e \in DOMAIN fs |->
        IF e \in kept THEN fs[e] ELSE clean_all_expired_caches(fs, t)[e]]

CacheSweep ==
    /\ \E kept \in SUBSET ExpiredEntries(files, now) :
          /\ files' = SweepKeeping(files, now, kept)
          /\ lastOp' = [NoOp EXCEPT !.op = "sweep", !.ok = (kept = {})]
    /\ UNCHANGED <<now, ticks, saves, written>>
    /\ UNCHANGED otherThanCache

CacheNext == Tick \/ CacheLoad \/ CacheSave \/ CacheSweep

SpecCache == CacheInit /\ [][CacheNext]_vars

\* The file a load or save of lastOp addressed.
LastFile == files[<<lastOp.ns, lastOp.key>>]

LastWritten == written[<<lastOp.ns, lastOp.key>>]

(***************************************************************************)
(* C4: in each namespace an entry written at time T and not rewritten is   *)
(* a hit for every read at t with t - T <= TTL and a miss for every read   *)
(* with t - T > TTL, whether or not a sweep ran in between (the read       *)
(* itself meeting no I/O error).                                           *)
(***************************************************************************)
C4_HitIffWithinTTL ==
    (lastOp.op = "load" /\ ~lastOp.ioFail /\ LastWritten >= 0) =>
        (lastOp.hit <=> now - LastWritten <= TTL(lastOp.ns))

\* A read exactly TTL seconds after the write, which is still a hit.
C4_Witness ==
    /\ lastOp.op = "load"
    /\ lastOp.ns = "ai"
    /\ LastWritten >= 0
    /\ now - LastWritten = AI_CACHE_TTL
    /\ lastOp.hit

(***************************************************************************)
(* C5: a cache read or write never raises: a read of an absent, expired,   *)
(* unreadable or corrupted entry returns a miss, and a failed write        *)
(* returns the failure value.                                              *)
(***************************************************************************)
C5_CacheNeverRaises ==
    /\ lastOp.op \in {"load", "save"} => ~lastOp.raised
    /\ (lastOp.op = "load" /\
          (\/ ~LastFile.exists
           \/ now - LastFile.mtime > TTL(lastOp.ns)
           \/ ~LastFile.intact
           \/ lastOp.ioFail)) => ~lastOp.hit
    /\ (lastOp.op = "save" /\ lastOp.ioFail) => ~lastOp.ok

\* A read of a corrupted, unexpired entry that came back as a miss.
C5_Witness ==
    /\ lastOp.op = "load"
    /\ LastFile.exists
    /\ ~LastFile.intact
    /\ now - LastFile.mtime <= TTL(lastOp.ns)
    /\ ~lastOp.hit
    /\ ~lastOp.raised


(***************************************************************************)
(* Enrichment: process_articles_with_ai and _process_batch_with_ai.        *)
(***************************************************************************)
MaxArticles == 4

MaxWriteFailures == 1

\* process_articles_with_ai(..., batch_size: int = 3)
batch_size == 3

Min(a, b) == IF a < b THEN a ELSE b

\* The site an article was fetched from ('site': site_url, lines 585, 699).
SiteOf(u) == IF u = "u1" THEN "s1" ELSE "s2"

Article(u) == [url |-> u, site |-> SiteOf(u)]

\* An enriched record.  error = "" stands for a record without the 'error'
\* key; persons tells how its key_persons / key_person_bios fields are
\* typed: "none" (empty), "ok" (lists of strings) or "bad" (anything else).
NoRecord == [url |-> "", origin |-> "none", error |-> "", persons |-> "none",
             site |-> ""]

CachedRecord(u) == [url |-> u, origin |-> "ai", error |-> "", persons |-> "ok",
                    site |-> SiteOf(u)]

\* What the service does with one request.
ResultKinds == {"dict", "nondict", "badtypes"}

Replies(m) ==
    {[shape |-> "throw", n |-> 0, kind |-> "dict"],
     [shape |-> "unparseable", n |-> 0, kind |-> "dict"],
     [shape |-> "array", n |-> 0, kind |-> "dict"]}
    \cup {[shape |-> "object", n |-> 1, kind |-> k] : k \in {"dict", "badtypes"}}
    \cup {[shape |-> "array", n |-> j, kind |-> k] :
              j \in 1..(m + 1), k \in ResultKinds}

ErrorOf(reply) ==
    CASE reply.shape = "throw" -> "Connection error."
      [] reply.shape = "unparseable" -> "Expecting value"
      [] OTHER -> ""

\* `if cached_result:` the cache holds a usable record for the article.
AiCached(fs, a, t) == load_ai_from_cache(fs, a.url, t, FALSE)

\* The split that takes every article for a miss.
CacheSplit_AllMisses(fs, arts, t) == [cached |-> <<>>, todo |-> arts]

\* The cache split both functions start with: (cached records, misses).
CacheSplit(fs, arts, t) ==
    LET hits == SelectSeq(arts, LAMBDA a : AiCached(fs, a, t).hit)
    IN  [cached |-> [i \in 1..Len(hits) |-> AiCached(fs, hits[i], t).value],
         todo |-> SelectSeq(arts, LAMBDA a : ~AiCached(fs, a, t).hit)]

\* Batches that each run on to the end of the list.
MakeBatches_Overlapping(todo, size) ==
    [k \in 1..((Len(todo) + size - 1) \div size) |->
        SubSeq(todo, (k - 1) * size + 1, Len(todo))]

\* batches = [todo[i:i + batch_size] for i in range(0, len(todo), batch_size)]
MakeBatches(todo, size) ==
    [k \in 1..((Len(todo) + size - 1) \div size) |->
        SubSeq(todo, (k - 1) * size + 1, Min(k * size, Len(todo)))]

\* The record built from result number i of the reply (lines 1186-1201).
ProcessedArticle(article, kind) ==
    [url |-> article.url, site |-> article.site, origin |-> "ai", error |-> "",
     persons |-> CASE kind = "dict" -> "ok"
                   [] kind = "nondict" -> "none"
                   [] kind = "badtypes" -> "bad"]

\* The fallback record without its error marker.
FallbackArticle_NoError(article, msg) ==
    [url |-> article.url, site |-> article.site, origin |-> "fallback",
     error |-> "",
     persons |-> "none"]

\* The record of the except branch (lines 1223-1239).
FallbackArticle(article, msg) ==
    [url |-> article.url, site |-> article.site, origin |-> "fallback",
     error |-> msg,
     persons |-> "none"]

\* The mapping that makes a record for every submitted article, whatever
\* the length of the reply.
MapResults_IgnoreLength(todo, reply) ==
    [i \in 1..Len(todo) |-> ProcessedArticle(todo[i], reply.kind)]

\* for i, result in enumerate(results): if i < len(articles_to_process): ...
MapResults(todo, reply) ==
    [i \in 1..Min(reply.n, Len(todo)) |-> ProcessedArticle(todo[i], reply.kind)]

\* The except branch: one fallback record for every article of the batch.
FallbackBatch(batch, msg) ==
    [i \in 1..Len(batch) |-> FallbackArticle(batch[i], msg)]

UrlsOf(seq) == {seq[j].url : j \in DOMAIN seq}

\* The loop that writes nothing.
SaveRecords_Nothing(fs, recs, t, outcomes) == fs

\* save_ai_to_cache for every record of recs that has a url; outcomes says
\* per URL how the write ends (its return value is not looked at).
RECURSIVE SaveRecords(_, _, _, _)
SaveRecords(fs, recs, t, outcomes) ==
    IF recs = <<>> THEN fs
    ELSE SaveRecords(
            IF Head(recs).url # ""
            THEN save_to_cache(fs, "ai", Head(recs).url, Head(recs), t,
                               outcomes[Head(recs).url])
            ELSE fs,
            Tail(recs), t, outcomes)

\* The cache holds rec under the key of its URL.
Stored(fs, rec) ==
    /\ fs[<<"ai", rec.url>>].exists
    /\ fs[<<"ai", rec.url>>].intact
    /\ fs[<<"ai", rec.url>>].payload = rec

\* The indices of seq, in order.
Indices(seq) == [i \in 1..Len(seq) |-> i]

\* An entry of the input list that is not a dict (a string, say).
NonDictEntry ==
    [url |-> "", origin |-> "nondict", error |-> "", persons |-> "none",
     site |-> ""]

\* isinstance(article, dict)
IsDict(article) == article.origin # "nondict"

\* The loop that does not skip: an entry that is not a dict raises.
SectionsOf_NonDictRaises(recs) ==
    IF \E i \in DOMAIN recs : ~IsDict(recs[i]) \/ recs[i].persons = "bad"
    THEN [raised |-> TRUE, sections |-> <<>>]
    ELSE [raised |-> FALSE, sections |-> Indices(recs)]

\* The loop of lines 1278-1337: an entry that is not a dict is skipped
\* (lines 1279-1281), every other entry gets the heading '## i. title' and
\* its section, and the person lines of an ill-typed record raise (lines
\* 1316 and 1318).  sections is the list of the positions i rendered.
SectionsOf(recs) ==
    IF \E i \in DOMAIN recs : IsDict(recs[i]) /\ recs[i].persons = "bad"
    THEN [raised |-> TRUE, sections |-> <<>>]
    ELSE [raised |-> FALSE,
          sections |-> SelectSeq(Indices(recs), LAMBDA i : IsDict(recs[i]))]

\* `if source_sites:` some dict of the list has a site, and the report gets
\* the section headed '\n## 搜索来源网站\n' (lines 1271-1276).
HasSources(recs) ==
    \E i \in DOMAIN recs : IsDict(recs[i]) /\ recs[i].site # ""

\* _generate_markdown: '' for an empty list; otherwise the report, with
\* the count its header states (len(articles), line 1269) and the sections
\* of the loop.
_generate_markdown(recs) ==
    IF recs = <<>> THEN [kind |-> "empty", stated |-> 0, sections |-> <<>>,
                               sources |-> FALSE]
    ELSE IF SectionsOf(recs).raised
         THEN [kind |-> "raised", stated |-> 0, sections |-> <<>>,
                               sources |-> FALSE]
         ELSE [kind |-> "report", stated |-> Len(recs),
               sections |-> SectionsOf(recs).sections,
               sources |-> HasSources(recs)]

Urls == CacheKeys

ArticleLists ==
    UNION {[1..n -> {Article(u) : u \in Urls}] : n \in 0..MaxArticles}

Configs ==
    {ValidConfig,
     [ValidConfig EXCEPT !.api_key = FALSE],
     [ValidConfig EXCEPT !.model = FALSE],
     [ValidConfig EXCEPT !.ai_prompt = FALSE]}

\* The enrichment cache as earlier runs left it: per URL no file, a record
\* of an earlier run, or a file that does not parse.
InitialAiFile(kind, u) ==
    CASE kind = "absent" -> NoFile(NoRecord)
      [] kind = "cached" ->
            [exists |-> TRUE, mtime |-> 0, intact |-> TRUE,
             payload |-> CachedRecord(u)]
      [] kind = "corrupt" ->
            [exists |-> TRUE, mtime |-> 0, intact |-> FALSE,
             payload |-> NoRecord]

InitialCaches ==
    {[e \in Namespaces \X CacheKeys |->
        IF e[1] = "ai" THEN InitialAiFile(k[e[2]], e[2]) ELSE NoFile(NoRecord)] :
     k \in [CacheKeys -> {"absent", "cached", "corrupt"}]}

EnrichInit ==
    /\ now = 0
    /\ ticks = 0
    /\ saves = 0
    /\ files \in InitialCaches
    /\ written = [e \in Namespaces \X CacheKeys |-> -1]
    /\ lastOp = NoOp
    /\ config \in Configs
    /\ articles_list \in ArticleLists
    /\ epc = "start"
    /\ cached_articles = <<>>
    /\ articles_to_process = <<>>
    /\ batches = <<>>
    /\ bstate = <<>>
    /\ bwork = <<>>
    /\ bresult = <<>>
    /\ collected = {}
    /\ newly_processed_articles = <<>>
    /\ all_processed_articles = <<>>
    /\ markdown_text = NoReport
    /\ service_log = <<>>
    /\ write_faults = 0
    /\ ConcIdle
    /\ FetchIdle
    /\ RunIdle
    /\ PoolIdle
    /\ RerunIdle
    /\ PureIdle
    /\ PublishIdle

\* How the writes of one batch can end: a write fails only for a URL the
\* batch writes, and no more writes fail than the run has faults left.
WriteOutcomes(budget, arts) ==
    {o \in [Urls -> SaveOutcomes] :
        /\ {u \in Urls : o[u] # "ok"} \subseteq UrlsOf(arts)
        /\ Cardinality({u \in Urls : o[u] # "ok"}) <= budget}

NoReply == [shape |-> "unsent", n |-> 0, kind |-> "dict"]

\* new, unsaved and stored are history: the records the batch produced, the
\* URLs whose cache write failed, the URLs of its records that the cache
\* held when it returned.
NoWork == [cached |-> <<>>, todo |-> <<>>, reply |-> NoReply,
           new |-> <<>>, unsaved |-> {}, stored |-> {}]

\* Lines 998-1017: the empty input, the cache split, the all-cached return.
EnrichPartition ==
    /\ epc = "start"
    /\ LET split == CacheSplit(files, articles_list, now) IN
       IF articles_list = <<>>
       THEN /\ markdown_text' = [kind |-> "empty", stated |-> 0, sections |-> <<>>,
                               sources |-> FALSE]
            /\ epc' = "done"
            /\ UNCHANGED <<cached_articles, articles_to_process,
                           all_processed_articles>>
       ELSE /\ cached_articles' = split.cached
            /\ articles_to_process' = split.todo
            /\ IF split.todo = <<>>
               THEN /\ all_processed_articles' = split.cached
                    /\ markdown_text' = _generate_markdown(split.cached)
                    /\ epc' = "done"
               ELSE /\ epc' = "client"
                    /\ UNCHANGED <<all_processed_articles, markdown_text>>
    /\ UNCHANGED <<config, articles_list, batches, bstate, bwork, bresult,
                   collected, newly_processed_articles, service_log>>
    /\ UNCHANGED cacheVars
    /\ UNCHANGED write_faults
    /\ UNCHANGED otherThanEnrich

\* Lines 1019-1042: the client, the batches, their submission to the pool.
EnrichSubmit ==
    /\ epc = "client"
    /\ IF ~config.api_key
       THEN /\ all_processed_articles' = cached_articles
            /\ markdown_text' = _generate_markdown(cached_articles)
            /\ epc' = "done"
            /\ UNCHANGED <<batches, bstate, bwork, bresult>>
       ELSE /\ batches' = MakeBatches(articles_to_process, batch_size)
            /\ bstate' = [k \in DOMAIN batches' |-> "queued"]
            /\ bwork' = [k \in DOMAIN batches' |-> NoWork]
            /\ bresult' = [k \in DOMAIN batches' |-> <<>>]
            /\ epc' = "collect"
            /\ UNCHANGED <<all_processed_articles, markdown_text>>
    /\ UNCHANGED <<config, articles_list, cached_articles, articles_to_process,
                   collected, newly_processed_articles, service_log>>
    /\ UNCHANGED cacheVars
    /\ UNCHANGED write_faults
    /\ UNCHANGED otherThanEnrich

\* _process_batch_with_ai, lines 1078-1131: the batch's own cache split,
\* the all-cached return, the prompt checks.
BatchBegin(i) ==
    /\ epc = "collect"
    /\ i \in DOMAIN batches
    /\ bstate[i] = "queued"
    /\ LET split == CacheSplit(files, batches[i], now) IN
       IF split.todo = <<>>
       THEN /\ bresult' = [bresult EXCEPT ![i] = split.cached]
            /\ bstate' = [bstate EXCEPT ![i] = "done"]
            /\ UNCHANGED bwork
       ELSE IF ~config.ai_prompt
       THEN /\ bstate' = [bstate EXCEPT ![i] = "raised"]
            /\ UNCHANGED <<bwork, bresult>>
       ELSE /\ bwork' = [bwork EXCEPT ![i] =
                            [NoWork EXCEPT !.cached = split.cached,
                                           !.todo = split.todo]]
            /\ bstate' = [bstate EXCEPT ![i] = "calling"]
            /\ UNCHANGED bresult
    /\ UNCHANGED <<config, articles_list, epc, cached_articles,
                   articles_to_process, batches, collected,
                   newly_processed_articles, all_processed_articles,
                   markdown_text, service_log>>
    /\ UNCHANGED cacheVars
    /\ UNCHANGED write_faults
    /\ UNCHANGED otherThanEnrich

\* What the try / except of lines 1133-1247 returns for a reply.
BatchOutcome(batch, work, reply, cfg) ==
    IF ~cfg.model
    THEN [sent |-> FALSE,
          new |-> FallbackBatch(batch, "LLM_MODEL environment variable is not set"),
          all |-> FallbackBatch(batch, "LLM_MODEL environment variable is not set")]
    ELSE IF reply.shape \in {"throw", "unparseable"}
    THEN [sent |-> TRUE,
          new |-> FallbackBatch(batch, ErrorOf(reply)),
          all |-> FallbackBatch(batch, ErrorOf(reply))]
    ELSE [sent |-> TRUE,
          new |-> MapResults(work.todo, reply),
          all |-> work.cached \o MapResults(work.todo, reply)]

\* _process_batch_with_ai, lines 1133-1247: the request, the mapping of the
\* reply or the fallback, the cache writes, the return.
BatchFinish(i) ==
    /\ epc = "collect"
    /\ i \in DOMAIN batches
    /\ bstate[i] = "calling"
    /\ \E reply \in Replies(Len(bwork[i].todo)) :
       \E outcomes \in WriteOutcomes(write_faults,
                BatchOutcome(batches[i], bwork[i], reply, config).new) :
        LET out == BatchOutcome(batches[i], bwork[i], reply, config) IN
        /\ files' = SaveRecords(files, out.new, now, outcomes)
        /\ bresult' = [bresult EXCEPT ![i] = out.all]
        /\ bstate' = [bstate EXCEPT ![i] = "done"]
        /\ bwork' = [bwork EXCEPT
              ![i].reply = IF out.sent THEN reply ELSE NoReply,
              ![i].new = out.new,
              ![i].unsaved = {u \in UrlsOf(out.new) : outcomes[u] # "ok"},
              ![i].stored = {out.new[k].url : k \in
                               {j \in DOMAIN out.new : Stored(files', out.new[j])}}]
        /\ service_log' = IF out.sent
                          THEN Append(service_log, bwork[i].todo)
                          ELSE service_log
        /\ write_faults' =
              write_faults - Cardinality({u \in Urls : outcomes[u] # "ok"})
    /\ UNCHANGED <<config, articles_list, epc, cached_articles,
                   articles_to_process, batches, collected,
                   newly_processed_articles, all_processed_articles,
                   markdown_text>>
    /\ UNCHANGED <<now, ticks, saves, written, lastOp>>
    /\ UNCHANGED otherThanEnrich

\* Lines 1044-1054: the caller takes one completed future.
EnrichCollect(i) ==
    /\ epc = "collect"
    /\ i \in DOMAIN batches
    /\ i \notin collected
    /\ bstate[i] \in {"done", "raised"}
    /\ collected' = collected \cup {i}
    /\ newly_processed_articles' =
          IF bstate[i] = "done"
          THEN newly_processed_articles \o bresult[i]
          ELSE newly_processed_articles
    /\ UNCHANGED <<config, articles_list, epc, cached_articles,
                   articles_to_process, batches, bstate, bwork, bresult,
                   all_processed_articles, markdown_text, service_log>>
    /\ UNCHANGED cacheVars
    /\ UNCHANGED write_faults
    /\ UNCHANGED otherThanEnrich

\* Lines 1056-1061: the merge and the rendering.
EnrichMerge ==
    /\ epc = "collect"
    /\ collected = DOMAIN batches
    /\ all_processed_articles' = cached_articles \o newly_processed_articles
    /\ markdown_text' =
          _generate_markdown(cached_articles \o newly_processed_articles)
    /\ epc' = "done"
    /\ UNCHANGED <<config, articles_list, cached_articles,
                   articles_to_process, batches, bstate, bwork, bresult,
                   collected, newly_processed_articles, service_log>>
    /\ UNCHANGED cacheVars
    /\ UNCHANGED write_faults
    /\ UNCHANGED otherThanEnrich

EnrichNext ==
    \/ EnrichPartition
    \/ EnrichSubmit
    \/ \E i \in 1..MaxArticles : BatchBegin(i)
    \/ \E i \in 1..MaxArticles : BatchFinish(i)
    \/ \E i \in 1..MaxArticles : EnrichCollect(i)
    \/ EnrichMerge

SpecEnrich == EnrichInit /\ [][EnrichNext]_vars


\* How many records (or articles) of seq carry the URL u.
Count(seq, u) == Cardinality({i \in DOMAIN seq : seq[i].url = u})

SameUrls(recs, arts) ==
    /\ Len(recs) = Len(arts)
    /\ \A u \in Urls : Count(recs, u) = Count(arts, u)

(***************************************************************************)
(* C1: with a valid configuration, whatever the service does, the merged   *)
(* list of process_articles_with_ai holds exactly one record per input     *)
(* article.                                                                *)
(***************************************************************************)
C1_OneRecordPerArticle ==
    (epc = "done" /\ config = ValidConfig) =>
        SameUrls(all_processed_articles, articles_list)

(***************************************************************************)
(* C2: when the reply holds fewer results than the batch submitted,        *)
(* _process_batch_with_ai returns as many records as the batch has items,  *)
(* one per item, and does not raise.                                       *)
(***************************************************************************)
C2_ShortReplyCovered ==
    \A i \in DOMAIN batches :
        (/\ bstate[i] \in {"done", "raised"}
         /\ bwork[i].reply.shape = "array"
         /\ bwork[i].reply.n < Len(bwork[i].todo)) =>
            /\ bstate[i] = "done"
            /\ SameUrls(bresult[i], batches[i])

(***************************************************************************)
(* C3: when the service call of a batch of n items throws,                 *)
(* _process_batch_with_ai returns exactly n records, the i-th for the i-th *)
(* item, each with a non-empty error marker.                               *)
(***************************************************************************)
C3_ThrowGivesFallbacks ==
    \A i \in DOMAIN batches :
        (bstate[i] = "done" /\ bwork[i].reply.shape = "throw") =>
            /\ Len(bresult[i]) = Len(batches[i])
            /\ \A j \in DOMAIN batches[i] :
                  /\ bresult[i][j].url = batches[i][j].url
                  /\ bresult[i][j].error # ""

\* A batch of three items whose call threw and which returned three records.
C3_Witness ==
    \E i \in DOMAIN batches :
        /\ bstate[i] = "done"
        /\ bwork[i].reply.shape = "throw"
        /\ Len(batches[i]) = 3
        /\ Len(bresult[i]) = 3


(***************************************************************************)
(* Specification SpecConc: pool workers (batch tasks of the enrichment     *)
(* pool, source tasks of the fetch pool) calling the cache at the same     *)
(* time.  A write is two steps, open(path, 'w') which truncates the file   *)
(* and json.dump which fills it; the code takes no lock around them.       *)
(***************************************************************************)
NumWorkers == 2

MaxOps == 2

Workers == 1..NumWorkers

IdleWorker == [at |-> "idle", key |-> "u1", ops |-> 0]

NoLoad == [worker |-> 0, key |-> "u1", during_write |-> FALSE, hit |-> FALSE]

ConcInit ==
    /\ now = 0
    /\ ticks = 0
    /\ saves = 0
    /\ files = [e \in Namespaces \X CacheKeys |-> NoFile("p1")]
    /\ written = [e \in Namespaces \X CacheKeys |-> -1]
    /\ lastOp = NoOp
    /\ EnrichIdle
    /\ wstate = [w \in Workers |-> IdleWorker]
    /\ lastLoad = NoLoad
    /\ FetchIdle
    /\ RunIdle
    /\ PoolIdle
    /\ RerunIdle
    /\ PureIdle
    /\ PublishIdle

\* Another worker is between the open and the end of the dump of key k.
WriterOn(w, k) ==
    \E v \in Workers : v # w /\ wstate[v].at = "writing" /\ wstate[v].key = k

\* save_ai_to_cache, line 294: open(cache_path, 'w') truncates the file.
ConcSaveOpen(w, k) ==
    /\ wstate[w].at = "idle"
    /\ wstate[w].ops < MaxOps
    /\ files' = [files EXCEPT ![<<"ai", k>>] =
                    [exists |-> TRUE, mtime |-> now, intact |-> FALSE,
                     payload |-> "p1"]]
    /\ wstate' = [wstate EXCEPT ![w] =
                    [at |-> "writing", key |-> k, ops |-> @.ops + 1]]
    /\ UNCHANGED <<now, ticks, saves, written, lastOp, lastLoad>>
    /\ UNCHANGED otherThanConc

\* save_ai_to_cache, lines 295-297: json.dump, the close, return True.  Two
\* writers of one file leave bytes of both behind: the file may not parse.
ConcSaveDump(w) ==
    /\ wstate[w].at = "writing"
    /\ \E whole \in IF WriterOn(w, wstate[w].key) THEN BOOLEAN ELSE {TRUE} :
          files' = [files EXCEPT ![<<"ai", wstate[w].key>>] =
                       [exists |-> TRUE, mtime |-> now, intact |-> whole,
                        payload |-> "p1"]]
    /\ wstate' = [wstate EXCEPT ![w].at = "idle"]
    /\ UNCHANGED <<now, ticks, saves, written, lastOp, lastLoad>>
    /\ UNCHANGED otherThanConc

\* load_ai_from_cache, lines 263-286, by worker w.
ConcLoad(w, k) ==
    /\ wstate[w].at = "idle"
    /\ wstate[w].ops < MaxOps
    /\ lastLoad' = [worker |-> w, key |-> k, during_write |-> WriterOn(w, k),
                    hit |-> load_ai_from_cache(files, k, now, FALSE).hit]
    /\ wstate' = [wstate EXCEPT ![w].ops = @ + 1]
    /\ UNCHANGED cacheVars
    /\ UNCHANGED otherThanConc

ConcNext ==
    \E w \in Workers :
        \/ \E k \in CacheKeys : ConcSaveOpen(w, k)
        \/ ConcSaveDump(w)
        \/ \E k \in CacheKeys : ConcLoad(w, k)

SpecConc == ConcInit /\ [][ConcNext]_vars

(***************************************************************************)
(* C6: cache operations on one key are serialized: no read runs between    *)
(* the start and the end of a write of the same key, and no two writes of  *)
(* the same key overlap.                                                   *)
(***************************************************************************)
C6_SameKeySerialized ==
    /\ ~lastLoad.during_write
    /\ \A v, w \in Workers :
          (v # w /\ wstate[v].at = "writing" /\ wstate[w].at = "writing")
              => wstate[v].key # wstate[w].key


(***************************************************************************)
(* Fetch: fetch_articles, _fetch_from_rss, _fetch_from_html and the        *)
(* process-wide proxy settings they switch.                                *)
(***************************************************************************)
MaxLinks == 2

\* fetch_articles(..., max_workers: int = 3)
max_workers == 3

Sites == {"s1", "s2"}

\* The cache key of a source's feed URL.
FeedKey(s) == IF s = "s1" THEN "u1" ELSE "u2"

UpperProxyEnv ==
    [EmptyEnv EXCEPT !["HTTP_PROXY"] = "http://proxy",
                     !["HTTPS_PROXY"] = "http://proxy"]

LowerProxyEnv ==
    [EmptyEnv EXCEPT !["http_proxy"] = "http://proxy",
                     !["https_proxy"] = "http://proxy"]

\* The environment the process is started in.
ImportEnvs == {EmptyEnv, UpperProxyEnv, LowerProxyEnv}

\* enable_proxy_for_web_scraping (lines 321-329).
enable_proxy_for_web_scraping(e, orig) ==
    [k \in proxy_vars |->
        IF k \in saved_vars /\ orig[k] # "" THEN orig[k] ELSE e[k]]

\* clear_all_proxy (lines 331-348).
clear_all_proxy(e) ==
    [k \in proxy_vars |-> IF k \in {"NO_PROXY", "no_proxy"} THEN "*" ELSE ""]

\* The network context of a request: a session with trust_env = True (and
\* requests.get, and feedparser's urllib) takes the proxy from os.environ
\* when the request is made; a session with trust_env = False goes direct.
ProxyConfigured(e) ==
    \E k \in {"HTTP_PROXY", "HTTPS_PROXY", "ALL_PROXY",
              "http_proxy", "https_proxy", "all_proxy"} : e[k] # ""

Bypassed(e) == e["NO_PROXY"] = "*" \/ e["no_proxy"] = "*"

Context(e, trust_env) ==
    IF trust_env /\ ProxyConfigured(e) /\ ~Bypassed(e)
    THEN "proxy" ELSE "direct"

FetchedArticle(s, u) == [site |-> s, url |-> u]

\* The place of a URL in the iteration order of a set of links: the order
\* of list(set(links)) (line 896) follows the strings' hashes, which are
\* fixed for the life of the process.
KeyRank(u) == IF u = "u1" THEN 1 ELSE 2

\* list(set(links)): lists of distinct URLs.
LinkLists ==
    {l \in UNION {[1..n -> CacheKeys] : n \in 0..MaxLinks} :
        \A i, j \in DOMAIN l : i < j => KeyRank(l[i]) < KeyRank(l[j])}

NewTask(kind) ==
    [kind |-> kind, pc |-> "queued", trust_env |-> TRUE, attempt |-> "none",
     backup |-> EmptyEnv, links |-> <<>>, articles |-> <<>>,
     failed_articles |-> <<>>, total_entries |-> 0, error_messages |-> 0,
     source_failed |-> FALSE, proxy_failure |-> "none", direct_attempts |-> 0,
     candidates |-> <<>>]

\* The strategy that ignores the feed mapping.
StrategyFor_AlwaysHtml(s, feeds) == "html"

\* Lines 474-479: rss_feed = feeds.get(site_url); the feed strategy if it
\* is truthy, the page crawl otherwise.
StrategyFor(s, feeds) == IF s \in feeds THEN "rss" ELSE "html"

FetchInit ==
    /\ now = 0
    /\ ticks = 0
    /\ saves = 0
    /\ files = [e \in Namespaces \X CacheKeys |-> NoFile("p1")]
    /\ written = [e \in Namespaces \X CacheKeys |-> -1]
    /\ lastOp = NoOp
    /\ EnrichIdle
    /\ ConcIdle
    /\ RunIdle
    /\ PoolIdle
    /\ RerunIdle
    /\ PureIdle
    /\ PublishIdle
    /\ env \in ImportEnvs
    /\ _original_proxy_settings = [k \in saved_vars |-> env[k]]
    /\ submit_env = EmptyEnv
    /\ rss_feeds \in SUBSET Sites
    /\ tasks = [s \in Sites |-> NewTask("unsubmitted")]
    /\ fpc = "start"
    /\ finished = <<>>
    /\ ncollected = 0
    /\ articles = <<>>
    /\ req_log = {}

\* The context the task's own steps give its requests: the proxy settings
\* of the submission while it is in its proxy attempt, direct after its own
\* clear_all_proxy.
OwnContext(t) ==
    IF t.attempt = "direct" THEN "direct" ELSE Context(submit_env, TRUE)

Request(s, what, t) ==
    [site |-> s, what |-> what, ctx |-> Context(env, t.trust_env),
     own |-> OwnContext(t)]

\* requests.get in _extract_title_from_url: no session, the environment decides.
TitleRequest(s, t) ==
    [site |-> s, what |-> "title", ctx |-> Context(env, TRUE),
     own |-> OwnContext(t)]

\* History: the URL an HTTP request of the link loop goes to, and whether
\* the page cache held that URL when the link was taken up.
ToUrl(request, u, hit) == request @@ [url |-> u, cached |-> hit]

Running(s) == tasks[s].pc \notin {"queued", "done", "raised"}

PoolHasRoom == Cardinality({s \in Sites : Running(s)}) < max_workers

fetchFrame == <<_original_proxy_settings, rss_feeds>>

\* fetch_articles, lines 463-482: the proxy is enabled, the tasks submitted.
FetchSubmit ==
    /\ fpc = "start"
    /\ env' = enable_proxy_for_web_scraping(env, _original_proxy_settings)
    /\ submit_env' = env'
    /\ tasks' = [s \in Sites |-> NewTask(StrategyFor(s, rss_feeds))]
    /\ fpc' = "running"
    /\ UNCHANGED <<finished, ncollected, articles, req_log>>
    /\ UNCHANGED fetchFrame
    /\ UNCHANGED cacheVars
    /\ UNCHANGED otherThanFetch

\* _fetch_from_rss (lines 540-618) with parse_rss_with_cache (303-318): the
\* cached feed or a request, the entries in range with enough text.
FetchFromRss(s) ==
    /\ fpc = "running"
    /\ tasks[s].kind = "rss"
    /\ tasks[s].pc = "queued"
    /\ PoolHasRoom
    /\ LET cached == load_rss_from_cache(files, FeedKey(s), now, FALSE) IN
       \E ok \in BOOLEAN, l \in LinkLists :
          /\ (~ok => l = <<>>)
          /\ (cached.hit => ok)
          /\ req_log' = IF cached.hit THEN req_log
                        ELSE req_log \cup {Request(s, "feed", tasks[s])}
          /\ files' = IF ~cached.hit /\ ok /\ l # <<>>
                      THEN save_to_cache(files, "rss", FeedKey(s), "p1", now, "ok")
                      ELSE files
          /\ tasks' = [tasks EXCEPT ![s].pc = "done",
                         ![s].source_failed = ~ok,
                         ![s].articles = [i \in DOMAIN l |-> FetchedArticle(s, l[i])]]
    /\ finished' = Append(finished, s)
    /\ UNCHANGED <<env, submit_env, fpc, ncollected, articles>>
    /\ UNCHANGED fetchFrame
    /\ UNCHANGED <<now, ticks, saves, written, lastOp>>
    /\ UNCHANGED otherThanFetch

\* _fetch_from_html, lines 630-650: the session and the copy of os.environ;
\* an exception here leaves the task.
HtmlStart(s) ==
    /\ fpc = "running"
    /\ tasks[s].kind = "html"
    /\ tasks[s].pc = "queued"
    /\ PoolHasRoom
    /\ \E raises \in BOOLEAN :
          IF raises
          THEN /\ tasks' = [tasks EXCEPT ![s].pc = "raised"]
               /\ finished' = Append(finished, s)
          ELSE /\ tasks' = [tasks EXCEPT ![s].pc = "started", ![s].backup = env]
               /\ UNCHANGED finished
    /\ UNCHANGED <<env, submit_env, fpc, ncollected, articles, req_log>>
    /\ UNCHANGED fetchFrame
    /\ UNCHANGED cacheVars
    /\ UNCHANGED otherThanFetch

\* Lines 680-682: enable_proxy_for_web_scraping, session.trust_env = True.
HtmlEnableProxy(s) ==
    /\ tasks[s].pc = "started"
    /\ env' = enable_proxy_for_web_scraping(env, _original_proxy_settings)
    /\ tasks' = [tasks EXCEPT ![s].pc = "enabled", ![s].trust_env = TRUE,
                              ![s].attempt = "proxy"]
    /\ UNCHANGED <<submit_env, fpc, finished, ncollected, articles, req_log>>
    /\ UNCHANGED fetchFrame
    /\ UNCHANGED cacheVars
    /\ UNCHANGED otherThanFetch

\* Where a task goes once the home page gave its links.
AfterHome(t, l) ==
    [t EXCEPT !.links = l, !.total_entries = Len(l), !.candidates = l,
              !.pc = IF l = <<>> THEN "finally" ELSE "links"]

\* The exception of a failed home page request: what it is about, and
\* whether its text has 'ProxyError', 'SSL' or 'proxy' in it.  The text of
\* a ProxyError or an SSLError has the name of its class; the text of any
\* other error (an HTTP status, a refused connection) quotes the URL or
\* the host and has one of the words when they do.
HomeErrors ==
    {[cause |-> "proxy_or_tls", mentions |-> TRUE],
     [cause |-> "other", mentions |-> TRUE],
     [cause |-> "other", mentions |-> FALSE]}

\* Line 734: 'ProxyError' in msg or 'SSL' in msg or 'proxy' in msg.lower().
ShouldRetryDirect(err) == err.mentions

\* The handler that records no error message.
HomeFailure_Silent(t, err) ==
    IF t.pc = "enabled" /\ ShouldRetryDirect(err)
    THEN [t EXCEPT !.pc = "fallback", !.proxy_failure = err.cause]
    ELSE [t EXCEPT !.pc = "finally", !.source_failed = TRUE,
                   !.proxy_failure = IF t.pc = "enabled" THEN err.cause ELSE @]

\* Lines 730-736 and 795-802: a failed proxy attempt goes to the direct
\* attempt if the text of its exception passes the test, and otherwise
\* ends the source with an error message; so does a failed direct attempt.
HomeFailure(t, err) ==
    IF t.pc = "enabled" /\ ShouldRetryDirect(err)
    THEN [t EXCEPT !.pc = "fallback", !.proxy_failure = err.cause]
    ELSE [t EXCEPT !.pc = "finally", !.source_failed = TRUE,
                   !.error_messages = @ + 1,
                   !.proxy_failure = IF t.pc = "enabled" THEN err.cause ELSE @]

\* Lines 685-691 (proxy attempt) and 748-754 (direct attempt): the home
\* page and its links, or its failure.
HtmlHome(s) ==
    /\ tasks[s].pc \in {"enabled", "cleared"}
    /\ req_log' = req_log \cup {Request(s, "home", tasks[s])}
    /\ \/ \E l \in LinkLists :
             tasks' = [tasks EXCEPT ![s] = AfterHome(@, l)]
       \/ \E err \in HomeErrors :
             tasks' = [tasks EXCEPT ![s] = HomeFailure(@, err)]
    /\ UNCHANGED <<env, submit_env, fpc, finished, ncollected, articles>>
    /\ UNCHANGED fetchFrame
    /\ UNCHANGED cacheVars
    /\ UNCHANGED otherThanFetch

\* The entry of 'failed_articles' for a link (lines 706-712).
FailedArticle(s, u) == [site |-> s, url |-> u, error |-> "no content"]

\* The loop that gives up the remaining links at the first failing one.
AfterLink_StopOnFailure(t, s, got) ==
    IF got
    THEN [t EXCEPT !.links = Tail(@),
                   !.articles = Append(@, FetchedArticle(s, Head(t.links))),
                   !.pc = IF Tail(t.links) = <<>> THEN "finally" ELSE "links"]
    ELSE [t EXCEPT !.links = <<>>,
                   !.failed_articles =
                        Append(@, FailedArticle(s, Head(t.links))),
                   !.pc = "finally"]

\* One round of the link loop (lines 693-728, 756-791): the link goes to
\* 'articles' if its content was extracted and to 'failed_articles' if
\* not, and the loop goes on with the next link.
AfterLink(t, s, got) ==
    [t EXCEPT !.links = Tail(@),
              !.articles = IF got THEN Append(@, FetchedArticle(s, Head(t.links)))
                           ELSE @,
              !.failed_articles =
                   IF got THEN @ ELSE Append(@, FailedArticle(s, Head(t.links))),
              !.pc = IF Tail(t.links) = <<>> THEN "finally" ELSE "links"]

\* Lines 693-728 / 756-791 with _extract_content_with_session(_direct) and
\* _extract_title_from_url: one link, from the page cache or fetched.
HtmlLink(s) ==
    /\ tasks[s].pc = "links"
    /\ LET t == tasks[s]
           u == Head(t.links)
           cached == load_html_from_cache(files, u, now, FALSE)
       IN  \E got \in BOOLEAN :
             /\ (cached.hit => got)
             /\ req_log' = req_log \cup {ToUrl(TitleRequest(s, t), u, cached.hit)}
                             \cup (IF cached.hit THEN {}
                                   ELSE {ToUrl(Request(s, "page", t), u, FALSE)})
             /\ files' = IF ~cached.hit /\ got
                         THEN save_to_cache(files, "html", u, "p1", now, "ok")
                         ELSE files
             /\ tasks' = [tasks EXCEPT ![s] = AfterLink(@, s, got)]
    /\ UNCHANGED <<env, submit_env, fpc, finished, ncollected, articles>>
    /\ UNCHANGED fetchFrame
    /\ UNCHANGED <<now, ticks, saves, written, lastOp>>
    /\ UNCHANGED otherThanFetch

\* Lines 737-746: the new session, clear_all_proxy, trust_env = False.
HtmlClearProxy(s) ==
    /\ tasks[s].pc = "fallback"
    /\ env' = clear_all_proxy(env)
    /\ tasks' = [tasks EXCEPT ![s].pc = "cleared", ![s].trust_env = FALSE,
                              ![s].attempt = "direct",
                              ![s].direct_attempts = @ + 1]
    /\ UNCHANGED <<submit_env, fpc, finished, ncollected, articles, req_log>>
    /\ UNCHANGED fetchFrame
    /\ UNCHANGED cacheVars
    /\ UNCHANGED otherThanFetch

\* Line 806: os.environ.clear().
HtmlEnvClear(s) ==
    /\ tasks[s].pc = "finally"
    /\ env' = EmptyEnv
    /\ tasks' = [tasks EXCEPT ![s].pc = "env_cleared"]
    /\ UNCHANGED <<submit_env, fpc, finished, ncollected, articles, req_log>>
    /\ UNCHANGED fetchFrame
    /\ UNCHANGED cacheVars
    /\ UNCHANGED otherThanFetch

\* Lines 807-809: os.environ.update(original_env_backup), the return.
HtmlEnvRestore(s) ==
    /\ tasks[s].pc = "env_cleared"
    /\ env' = [k \in proxy_vars |->
                 IF tasks[s].backup[k] # "" THEN tasks[s].backup[k] ELSE env[k]]
    /\ tasks' = [tasks EXCEPT ![s].pc = "done"]
    /\ finished' = Append(finished, s)
    /\ UNCHANGED <<submit_env, fpc, ncollected, articles, req_log>>
    /\ UNCHANGED fetchFrame
    /\ UNCHANGED cacheVars
    /\ UNCHANGED otherThanFetch

\* The try / except around future.result() with an exception that empties
\* the list gathered so far.
CollectResult_Abort(acc, t) ==
    IF t.pc = "raised" THEN <<>> ELSE acc \o t.articles

\* What a task returns: _fetch_from_rss a plain list (line 618),
\* _fetch_from_html its result dict (line 809).
SiteResult(t) ==
    IF t.kind = "rss"
    THEN [type |-> "list", items |-> t.articles]
    ELSE [type |-> "dict", articles |-> t.articles,
          failed_articles |-> t.failed_articles]

\* Lines 491-497: the 'articles' of a dict, the items of a list, nothing
\* of any other value.
SiteArticles(site_result) ==
    CASE site_result.type = "dict" -> site_result.articles
      [] site_result.type = "list" -> site_result.items
      [] OTHER -> <<>>

\* Lines 487-504: future.result() of one completed future; its articles
\* are appended, its exception is logged and counted.
CollectResult(acc, t) ==
    IF t.pc = "raised" THEN acc ELSE acc \o SiteArticles(SiteResult(t))

\* Lines 486-504: as_completed hands over the next completed future.
FetchCollect ==
    /\ fpc = "running"
    /\ ncollected < Len(finished)
    /\ articles' = CollectResult(articles, tasks[finished[ncollected + 1]])
    /\ ncollected' = ncollected + 1
    /\ UNCHANGED <<env, submit_env, tasks, fpc, finished, req_log>>
    /\ UNCHANGED fetchFrame
    /\ UNCHANGED cacheVars
    /\ UNCHANGED otherThanFetch

\* Lines 506-507: every future is consumed, the list is returned.
FetchReturn ==
    /\ fpc = "running"
    /\ ncollected = Cardinality(Sites)
    /\ fpc' = "returned"
    /\ UNCHANGED <<env, submit_env, tasks, finished, ncollected, articles,
                   req_log>>
    /\ UNCHANGED fetchFrame
    /\ UNCHANGED cacheVars
    /\ UNCHANGED otherThanFetch

FetchNext ==
    \/ FetchSubmit
    \/ \E s \in Sites : FetchFromRss(s)
    \/ \E s \in Sites : HtmlStart(s)
    \/ \E s \in Sites : HtmlEnableProxy(s)
    \/ \E s \in Sites : HtmlHome(s)
    \/ \E s \in Sites : HtmlLink(s)
    \/ \E s \in Sites : HtmlClearProxy(s)
    \/ \E s \in Sites : HtmlEnvClear(s)
    \/ \E s \in Sites : HtmlEnvRestore(s)
    \/ FetchCollect
    \/ FetchReturn

SpecFetch == FetchInit /\ [][FetchNext]_vars


\* C7: in every interleaving of the per-source tasks, each request of a task
\* runs in the network context (proxy or direct) that the task's own steps
\* decide; no sibling's clearing, restoring or re-enabling of the
\* process-wide proxy settings changes it.
C7_ContextDecidedByOwnSteps ==
    \A r \in req_log : r.ctx = r.own

RECURSIVE ArticlesOfCompleted(_)
ArticlesOfCompleted(order) ==
    IF order = <<>> THEN <<>>
    ELSE (IF tasks[Head(order)].pc = "raised" THEN <<>>
          ELSE tasks[Head(order)].articles)
         \o ArticlesOfCompleted(Tail(order))

\* C10: an exception raised inside per-source tasks is caught at the task
\* boundary: when fetch_articles returns, every task has run to its end and
\* the returned list is exactly the concatenation, in completion order, of
\* the article lists of the tasks that did not raise.
C10_RaisingTasksExcluded ==
    fpc = "returned" =>
        /\ \A s \in Sites : tasks[s].pc \in {"done", "raised"}
        /\ articles = ArticlesOfCompleted(finished)

C10_Witness ==
    /\ fpc = "returned"
    /\ \E s \in Sites : tasks[s].pc = "raised"
    /\ \E s \in Sites : tasks[s].pc = "done" /\ tasks[s].articles # <<>>
    /\ finished[1] \in {s \in Sites : tasks[s].pc = "done"}
    /\ articles # <<>>


(***************************************************************************)
(* The run driver: run_newsletter_task (run_newsletter.py, lines 78-204).  *)
(* fetch_articles is taken here by what it returns and stores; its own     *)
(* steps are those of SpecFetch.                                           *)
(***************************************************************************)
MaxFetched == 2

FetchedLists ==
    UNION {[1..n -> {Article(u) : u \in Urls}] : n \in 0..MaxFetched}

\* The page or feed files a fetch leaves in the caches for what it returned.
RECURSIVE SavePages(_, _, _)
SavePages(fs, arts, t) ==
    IF arts = <<>> THEN fs
    ELSE SavePages(save_to_cache(fs, "html", Head(arts).url, NoRecord, t, "ok"),
                   Tail(arts), t)

\* main(): run_quick_test with --test, run_weekly_newsletter_task (that is,
\* run_newsletter_task) without it (run_newsletter.py, lines 323-328).
EntryPoints == {"run_newsletter_task", "run_quick_test"}

\* The date arguments of run_newsletter_task (lines 78-82), "None" when not
\* given.
NoArgs == [days_back |-> "None", start_date |-> "None", end_date |-> "None"]

RunArgs ==
    [days_back : {"None", "0", "7"}, start_date : {"None", "d1"},
     end_date : {"None", "d3"}]

\* The check that takes days_back = 0 for no days_back.
ArgsConflict_Truthy(a) ==
    /\ a.days_back \notin {"None", "0"}
    /\ (a.start_date # "None" \/ a.end_date # "None")

\* if days_back is not None and (start_date is not None or end_date is not
\* None): raise ValueError (lines 103-104).
ArgsConflict(a) ==
    /\ a.days_back # "None"
    /\ (a.start_date # "None" \/ a.end_date # "None")

RunInit ==
    /\ now \in {0, AI_CACHE_TTL + 1}
    /\ ticks = 0
    /\ saves = 0
    /\ files \in InitialCaches
    /\ written = [e \in Namespaces \X CacheKeys |-> -1]
    /\ lastOp = NoOp
    /\ config \in Configs
    /\ articles_list = <<>>
    /\ epc = "idle"
    /\ cached_articles = <<>>
    /\ articles_to_process = <<>>
    /\ batches = <<>>
    /\ bstate = <<>>
    /\ bwork = <<>>
    /\ bresult = <<>>
    /\ collected = {}
    /\ newly_processed_articles = <<>>
    /\ all_processed_articles = <<>>
    /\ markdown_text = NoReport
    /\ service_log = <<>>
    /\ write_faults = 0
    /\ ConcIdle
    /\ FetchIdle
    /\ rpc = "start"
    /\ run_result = "none"
    /\ fetch_ran = FALSE
    /\ entry \in EntryPoints
    /\ stage_log = <<>>
    /\ args \in (IF entry = "run_newsletter_task" THEN RunArgs ELSE {NoArgs})
    /\ out_files = {}
    /\ article_count = 0
    /\ PoolIdle
    /\ RerunIdle
    /\ PureIdle
    /\ PublishIdle

runFrame == <<enrichVars, concVars, fetchVars, poolVars, rerunVars,
             pureVars, publishVars>>

\* Lines 103-132: the argument check, the date range, the sweep.
RunSweep ==
    /\ rpc = "start"
    /\ entry = "run_newsletter_task"
    /\ IF ArgsConflict(args)
          THEN /\ rpc' = "done"
               /\ run_result' = "ValueError"
               /\ UNCHANGED <<files, stage_log>>
          ELSE /\ rpc' = "fetch"
               /\ \E kept \in SUBSET ExpiredEntries(files, now) :
                     files' = SweepKeeping(files, now, kept)
               /\ stage_log' = Append(stage_log, "sweep")
               /\ UNCHANGED run_result
    /\ UNCHANGED <<fetch_ran, entry, args, out_files, article_count>>
    /\ UNCHANGED <<now, ticks, saves, written, lastOp>>
    /\ UNCHANGED runFrame

\* The driver that goes on to enrichment whatever fetch returned.
AfterFetch_AlwaysEnrich(l) == "enrich"

\* if not articles: return None (lines 140-142).
AfterFetch(l) == IF l = <<>> THEN "done" ELSE "enrich"

\* How publish_feishu_report ends for its caller: a link, None, or an
\* exception of the conversion call, which is outside its try blocks
\* (newsletter_tools.py, line 1497).
PublishOutcomes == {"doc_url", "None", "publish_raised"}

\* Lines 138-157: fetch_articles, the empty-result return, the call of
\* process_articles_with_ai.
RunFetch ==
    /\ rpc = "fetch"
    /\ fetch_ran' = TRUE
    /\ \E l \in FetchedLists, pages \in BOOLEAN :
          /\ files' = IF pages THEN SavePages(files, l, now) ELSE files
          /\ IF AfterFetch(l) = "done"
             THEN /\ rpc' = "done"
                  /\ run_result' = "None"
                  /\ stage_log' = Append(stage_log, "fetch")
                  /\ UNCHANGED <<articles_list, epc>>
                  /\ UNCHANGED out_files
             ELSE /\ rpc' = "enrich"
                  /\ articles_list' = l
                  /\ epc' = "start"
                  /\ stage_log' = stage_log \o <<"fetch", "enrich">>
                  /\ out_files' = out_files \cup {"articles_json"}
                  /\ UNCHANGED run_result
    /\ UNCHANGED <<entry, args, article_count>>
    /\ UNCHANGED <<config, cached_articles, articles_to_process, batches,
                   bstate, bwork, bresult, collected,
                   newly_processed_articles, all_processed_articles,
                   markdown_text, service_log, write_faults>>
    /\ UNCHANGED <<now, ticks, saves, written, lastOp>>
    /\ UNCHANGED <<concVars, fetchVars, poolVars, rerunVars, pureVars, publishVars>>

\* run_quick_test (lines 222-245): no sweep and no fetch; the articles are
\* read from the test data file, and process_articles_with_ai is called on
\* them.  Without the file the function returns None.
RunQuickTest ==
    /\ rpc = "start"
    /\ entry = "run_quick_test"
    /\ \E has_file \in BOOLEAN, l \in FetchedLists :
          IF ~has_file
          THEN /\ l = <<>>
               /\ rpc' = "done"
               /\ run_result' = "None"
               /\ UNCHANGED <<articles_list, epc, stage_log>>
          ELSE /\ rpc' = "enrich"
               /\ articles_list' = l
               /\ epc' = "start"
               /\ stage_log' = Append(stage_log, "enrich")
               /\ UNCHANGED run_result
    /\ UNCHANGED <<fetch_ran, entry, args, out_files, article_count>>
    /\ UNCHANGED <<config, cached_articles, articles_to_process, batches,
                   bstate, bwork, bresult, collected,
                   newly_processed_articles, all_processed_articles,
                   markdown_text, service_log, write_faults>>
    /\ UNCHANGED cacheVars
    /\ UNCHANGED <<concVars, fetchVars, poolVars, rerunVars, pureVars, publishVars>>

\* markdown_content.count('\n## ') (line 169): the item headings
\* '\n## i. title\n' (line 1285) and the heading of the sources section.
HeadingCount(md) == Len(md.sections) + (IF md.sources THEN 1 ELSE 0)

\* Lines 157-169: process_articles_with_ai has returned or raised; an
\* exception of it is not caught here, an empty text ends the run with None.
RunEnriched ==
    /\ rpc = "enrich"
    /\ epc = "done"
    /\ CASE markdown_text.kind = "raised" ->
              /\ rpc' = "done" /\ run_result' = "raised"
              /\ UNCHANGED <<out_files, article_count>>
         [] markdown_text.kind = "empty" ->
              /\ rpc' = "done" /\ run_result' = "None"
              /\ UNCHANGED <<out_files, article_count>>
         [] OTHER ->
              /\ rpc' = "publish"
              /\ article_count' = IF entry = "run_newsletter_task"
                                   THEN HeadingCount(markdown_text)
                                   ELSE article_count
              /\ out_files' = out_files \cup {"report_md"}
              /\ UNCHANGED run_result
    /\ UNCHANGED <<fetch_ran, entry, stage_log, args>>
    /\ UNCHANGED cacheVars
    /\ UNCHANGED runFrame

\* Lines 176-204: publish_feishu_report and the return of its link or None.
RunPublish ==
    /\ rpc = "publish"
    /\ rpc' = "done"
    /\ run_result' \in PublishOutcomes
    /\ stage_log' = Append(stage_log, "publish")
    /\ UNCHANGED <<fetch_ran, entry, args, out_files, article_count>>
    /\ UNCHANGED cacheVars
    /\ UNCHANGED runFrame

RunNext ==
    \/ RunSweep
    \/ RunQuickTest
    \/ RunFetch
    \/ EnrichPartition
    \/ EnrichSubmit
    \/ \E i \in 1..MaxArticles : BatchBegin(i)
    \/ \E i \in 1..MaxArticles : BatchFinish(i)
    \/ \E i \in 1..MaxArticles : EnrichCollect(i)
    \/ EnrichMerge
    \/ RunEnriched
    \/ RunPublish

SpecRun == RunInit /\ [][RunNext]_vars

ConfigMissing == ~config.api_key \/ ~config.model

\* C8: with LLM_API_KEY or LLM_MODEL missing the run aborts before any
\* fetch or enrichment work: no source is fetched, no batch is processed,
\* no record is produced and no cache entry is written.
C8_MissingConfigAbortsFirst ==
    ConfigMissing =>
        /\ ~fetch_ran
        /\ \A i \in DOMAIN bstate : bstate[i] = "queued"
        /\ newly_processed_articles = <<>>
        /\ \A e \in DOMAIN files :
              files[e].exists =>
                  e[1] = "ai" /\ files[e].payload.origin # "fallback"

\* C9: with valid configuration a run always ends with a report or with
\* the empty-result signal, never with an exception raised out of the
\* fetch or enrichment stage.
C9_RunNeverRaises ==
    config = ValidConfig => run_result # "raised"


\* C11: fetch_articles submits one task per configured source, the feed
\* strategy exactly for the sources that have a feed URL and the page crawl
\* for the others, and the articles of a task's result (the 'articles' of a
\* dict, the items of a list) are merged into the returned flat list.
C11_OneTaskPerSourceByStrategy ==
    /\ DOMAIN tasks = Sites
    /\ fpc # "start" =>
          \A s \in Sites : (tasks[s].kind = "rss") <=> (s \in rss_feeds)
    /\ fpc # "start" =>
          \A s \in Sites : (tasks[s].kind = "html") <=> (s \notin rss_feeds)
    /\ fpc = "returned" =>
          \A s \in Sites :
             tasks[s].pc = "done" =>
                \A i \in DOMAIN tasks[s].articles :
                   \E j \in DOMAIN articles : articles[j] = tasks[s].articles[i]

C11_Witness ==
    /\ fpc = "returned"
    /\ \E s \in Sites :
          tasks[s].kind = "rss" /\ tasks[s].pc = "done" /\ tasks[s].articles # <<>>
    /\ \E s \in Sites :
          tasks[s].kind = "html" /\ tasks[s].pc = "done" /\ tasks[s].articles # <<>>
    /\ Len(articles) = 2


(***************************************************************************)
(* The two worker pools of a run: ThreadPoolExecutor(max_workers) in       *)
(* fetch_articles (line 470) and in process_articles_with_ai (line 1036).  *)
(* A task here is only queued, running or done; a pool takes its queue in  *)
(* the order of submission.                                                *)
(***************************************************************************)
NumSources == 4

NumBatches == 11

\* process_articles_with_ai(..., max_workers: int = 10)
enrich_max_workers == 10

RunningIn(pool) == {i \in DOMAIN pool : pool[i] = "running"}

\* A pool that starts a task whatever the number of running ones.
WorkerFree_Unbounded(pool, width) == TRUE

\* ThreadPoolExecutor starts a queued task only on one of its max_workers
\* threads.
WorkerFree(pool, width) == Cardinality(RunningIn(pool)) < width

\* The queue is first in, first out.
NextQueued(pool, i) ==
    /\ i \in DOMAIN pool
    /\ pool[i] = "queued"
    /\ \A j \in DOMAIN pool : j < i => pool[j] # "queued"

AllDone(pool) == \A i \in DOMAIN pool : pool[i] = "done"

PoolsInit ==
    /\ now = 0
    /\ ticks = 0
    /\ saves = 0
    /\ files = [e \in Namespaces \X CacheKeys |-> NoFile("p1")]
    /\ written = [e \in Namespaces \X CacheKeys |-> -1]
    /\ lastOp = NoOp
    /\ EnrichIdle
    /\ ConcIdle
    /\ FetchIdle
    /\ RunIdle
    /\ RerunIdle
    /\ PureIdle
    /\ PublishIdle
    /\ pool_pc = "fetch"
    /\ \E n \in 1..NumSources : fetch_pool = [i \in 1..n |-> "queued"]
    /\ enrich_pool = <<>>

poolFrame == <<cacheVars, enrichVars, concVars, fetchVars, runVars,
              rerunVars, pureVars, publishVars>>

\* A fetch task is taken by a worker of the fetch pool.
FetchTaskStart(i) ==
    /\ pool_pc = "fetch"
    /\ NextQueued(fetch_pool, i)
    /\ WorkerFree(fetch_pool, max_workers)
    /\ fetch_pool' = [fetch_pool EXCEPT ![i] = "running"]
    /\ UNCHANGED <<pool_pc, enrich_pool>>
    /\ UNCHANGED poolFrame

\* A fetch task returns or raises.
FetchTaskEnd(i) ==
    /\ pool_pc = "fetch"
    /\ i \in DOMAIN fetch_pool
    /\ fetch_pool[i] = "running"
    /\ fetch_pool' = [fetch_pool EXCEPT ![i] = "done"]
    /\ UNCHANGED <<pool_pc, enrich_pool>>
    /\ UNCHANGED poolFrame

\* fetch_articles leaves its with block when every future is done
\* (lines 470-507); run_newsletter_task then ends (no articles) or calls
\* process_articles_with_ai, which submits its batches (lines 1036-1042).
EnrichPoolSubmit ==
    /\ pool_pc = "fetch"
    /\ AllDone(fetch_pool)
    /\ \E m \in 0..NumBatches :
          /\ enrich_pool' = [i \in 1..m |-> "queued"]
          /\ pool_pc' = IF m = 0 THEN "done" ELSE "enrich"
    /\ UNCHANGED fetch_pool
    /\ UNCHANGED poolFrame

\* A batch is taken by a worker of the enrichment pool.
BatchTaskStart(i) ==
    /\ pool_pc = "enrich"
    /\ NextQueued(enrich_pool, i)
    /\ WorkerFree(enrich_pool, enrich_max_workers)
    /\ enrich_pool' = [enrich_pool EXCEPT ![i] = "running"]
    /\ UNCHANGED <<pool_pc, fetch_pool>>
    /\ UNCHANGED poolFrame

\* A batch returns or raises.
BatchTaskEnd(i) ==
    /\ pool_pc = "enrich"
    /\ i \in DOMAIN enrich_pool
    /\ enrich_pool[i] = "running"
    /\ enrich_pool' = [enrich_pool EXCEPT ![i] = "done"]
    /\ UNCHANGED <<pool_pc, fetch_pool>>
    /\ UNCHANGED poolFrame

\* Lines 1036-1061: the with block of the enrichment pool is left.
EnrichPoolReturn ==
    /\ pool_pc = "enrich"
    /\ AllDone(enrich_pool)
    /\ pool_pc' = "done"
    /\ UNCHANGED <<fetch_pool, enrich_pool>>
    /\ UNCHANGED poolFrame

PoolsNext ==
    \/ \E i \in 1..NumSources : FetchTaskStart(i)
    \/ \E i \in 1..NumSources : FetchTaskEnd(i)
    \/ EnrichPoolSubmit
    \/ \E i \in 1..NumBatches : BatchTaskStart(i)
    \/ \E i \in 1..NumBatches : BatchTaskEnd(i)
    \/ EnrichPoolReturn

SpecPools == PoolsInit /\ [][PoolsNext]_vars

\* C12: at every moment at most max_workers (3) fetch tasks and at most
\* max_workers (10) enrichment batches are executing, and no fetch task
\* executes while an enrichment batch executes.
C12_PoolsBoundedAndSequential ==
    /\ Cardinality(RunningIn(fetch_pool)) <= max_workers
    /\ Cardinality(RunningIn(enrich_pool)) <= enrich_max_workers
    /\ ~(RunningIn(fetch_pool) # {} /\ RunningIn(enrich_pool) # {})

C12_Witness ==
    /\ Cardinality(RunningIn(enrich_pool)) = enrich_max_workers
    /\ \E i \in DOMAIN enrich_pool : enrich_pool[i] = "queued"
    /\ Len(fetch_pool) > max_workers


(***************************************************************************)
(* A later run over the same items: process_articles_with_ai is called     *)
(* again, within the enrichment TTL, with the cache as the first run left  *)
(* it.                                                                     *)
(***************************************************************************)
\* The items of the requests sent so far whose batch came back without a
\* record of the service for them: the call threw, the reply did not
\* parse, or no result covered them.
FailedUrls ==
    {u \in Urls :
        \E i \in DOMAIN batches :
           /\ bstate[i] = "done"
           /\ bwork[i].reply.shape # "unsent"
           /\ u \in UrlsOf(bwork[i].todo)
           /\ ~\E k \in DOMAIN bresult[i] :
                 bresult[i][k].url = u /\ bresult[i][k].origin = "ai"}

\* run_newsletter_task runs again (lines 131-157): the sweep, the same
\* articles, process_articles_with_ai from its first line.
Rerun ==
    /\ epc = "done"
    /\ run_no = 1
    /\ run_no' = 2
    /\ failed_urls' = FailedUrls
    /\ first_sent' = Len(service_log)
    /\ \E d \in {0, AI_CACHE_TTL} :
          /\ now' = now + d
          /\ files' = clean_all_expired_caches(files, now + d)
    /\ epc' = "start"
    /\ cached_articles' = <<>>
    /\ articles_to_process' = <<>>
    /\ batches' = <<>>
    /\ bstate' = <<>>
    /\ bwork' = <<>>
    /\ bresult' = <<>>
    /\ collected' = {}
    /\ newly_processed_articles' = <<>>
    /\ all_processed_articles' = <<>>
    /\ markdown_text' = NoReport
    /\ UNCHANGED <<config, articles_list, service_log, write_faults>>
    /\ UNCHANGED <<ticks, saves, written, lastOp>>
    /\ UNCHANGED <<concVars, fetchVars, runVars, poolVars, pureVars, publishVars>>

RerunNext == EnrichNext \/ Rerun

SpecRerun == EnrichInit /\ [][RerunNext]_vars

\* C13: an item whose enrichment failed in one run is not sent to the
\* service again by a later run that starts within the 7-day TTL; the
\* later run finds a cached record for its URL.
C13_FailedItemNotResent ==
    run_no = 2 =>
        \A k \in (first_sent + 1)..Len(service_log) :
            UrlsOf(service_log[k]) \cap failed_urls = {}


(***************************************************************************)
(* The enrichment with cache writes that fail: save_ai_to_cache returns    *)
(* False (the file cannot be opened, or the dump breaks off) and its       *)
(* caller goes on.                                                         *)
(***************************************************************************)
StoreInit ==
    /\ now = 0
    /\ ticks = 0
    /\ saves = 0
    /\ files \in InitialCaches
    /\ written = [e \in Namespaces \X CacheKeys |-> -1]
    /\ lastOp = NoOp
    /\ config = ValidConfig
    /\ articles_list \in FetchedLists
    /\ epc = "start"
    /\ cached_articles = <<>>
    /\ articles_to_process = <<>>
    /\ batches = <<>>
    /\ bstate = <<>>
    /\ bwork = <<>>
    /\ bresult = <<>>
    /\ collected = {}
    /\ newly_processed_articles = <<>>
    /\ all_processed_articles = <<>>
    /\ markdown_text = NoReport
    /\ service_log = <<>>
    /\ write_faults = MaxWriteFailures
    /\ ConcIdle
    /\ FetchIdle
    /\ RunIdle
    /\ PoolIdle
    /\ RerunIdle
    /\ PureIdle
    /\ PublishIdle

SpecStore == StoreInit /\ [][EnrichNext]_vars

C15_CachedPageNotRequested ==
    \A r \in req_log : r.what \in {"page", "title"} => ~r.cached


\* How often the requests of log hold an item with the URL u.
RECURSIVE SentCount(_, _)
SentCount(log, u) ==
    IF log = <<>> THEN 0
    ELSE Count(Head(log), u) + SentCount(Tail(log), u)

\* C16: within one run every article that misses the enrichment cache is in
\* at most one request to the service: no batch sends twice, and for every
\* URL the requests hold no more items than the misses do; a failed or
\* incomplete request is not sent again.
C16_AtMostOneRequestPerMiss ==
    /\ Len(service_log) <= Len(batches)
    /\ Len(service_log) =
          Cardinality({i \in DOMAIN bwork : bwork[i].reply.shape # "unsent"})
    /\ \A u \in Urls :
          SentCount(service_log, u) <= Count(articles_to_process, u)

C16_Witness ==
    /\ epc = "done"
    /\ Len(articles_to_process) = 4
    /\ Len(service_log) = 2
    /\ \E i \in DOMAIN bwork : bwork[i].reply.shape = "throw"
    /\ \E i \in DOMAIN bwork :
          bwork[i].reply.shape = "array" /\ bwork[i].reply.n < Len(bwork[i].todo)
    /\ \A u \in Urls :
          SentCount(service_log, u) = Count(articles_to_process, u)


(***************************************************************************)
(* The feed strategy as a function of the parsed feed: _fetch_from_rss     *)
(* (lines 540-618), its date filter and its text length gate.              *)
(***************************************************************************)
MaxEntries == 3

\* The days of the model: 0 is before the window, 4 after it.
start_date == 1

end_date == 3

Days == 0..4

\* Lengths of the cleaned text of an entry (len(_clean_rss_content(...))).
ContentLengths == {49, 50, 51}

\* published_parsed of an entry: "parsed" with its day; "absent" when the
\* entry has no such attribute; "none" when the attribute is there and is
\* None (a publish date that feedparser could not parse).  cleans tells
\* whether _clean_rss_content returns for the entry's text or raises.
FeedEntries ==
    [published : {"parsed"}, day : Days, content_len : ContentLengths,
     cleans : {TRUE}]
    \cup [published : {"parsed"}, day : Days, content_len : {51},
          cleans : {FALSE}]
    \cup [published : {"absent", "none"}, day : {0}, content_len : {51},
          cleans : {TRUE}]

Feeds == UNION {[1..n -> FeedEntries] : n \in 0..MaxEntries}

\* start_date <= article_date.date() <= end_date (line 563).
InRange(d, first, last) == first <= d /\ d <= last

\* content_text and len(content_text) > 50 (line 600).
EnoughText(n) == n > 50

\* Lines 559-592: the entries that have published_parsed and a date in the
\* window; datetime(*None[:6]) raises on an entry whose value is None.
DateFilter(entries, first, last) ==
    IF \E i \in DOMAIN entries : entries[i].published = "none"
    THEN [raised |-> TRUE, article_data |-> <<>>]
    ELSE [raised |-> FALSE,
          article_data |->
             SelectSeq(Indices(entries),
                  LAMBDA i : /\ entries[i].published = "parsed"
                             /\ InRange(entries[i].day, first, last))]

\* _fetch_from_rss: the filtered entries whose cleaned text is long enough;
\* an entry whose cleaning raises is skipped (lines 596-613); the empty
\* list when the loop over the entries raised (lines 615-618).
\* An article is named by the index of its entry.
_fetch_from_rss(entries, first, last) ==
    LET data == DateFilter(entries, first, last) IN
    IF data.raised THEN <<>>
    ELSE SelectSeq(data.article_data,
                   LAMBDA i : /\ entries[i].cleans
                              /\ EnoughText(entries[i].content_len))


FeedInit ==
    /\ now = 0
    /\ ticks = 0
    /\ saves = 0
    /\ files = [e \in Namespaces \X CacheKeys |-> NoFile("p1")]
    /\ written = [e \in Namespaces \X CacheKeys |-> -1]
    /\ lastOp = NoOp
    /\ EnrichIdle
    /\ ConcIdle
    /\ FetchIdle
    /\ RunIdle
    /\ PoolIdle
    /\ RerunIdle
    /\ feed \in Feeds
    /\ rss_result = NotRun
    /\ md_input = <<>>
    /\ md_result = NotRun
    /\ PublishIdle

\* One call of _fetch_from_rss on the feed.
FetchFeed ==
    /\ rss_result = NotRun
    /\ rss_result' = [kind |-> "returned",
                      articles |-> _fetch_from_rss(feed, start_date, end_date)]
    /\ UNCHANGED <<feed, md_input, md_result>>
    /\ UNCHANGED <<cacheVars, enrichVars, concVars, fetchVars, runVars,
                   poolVars, rerunVars, publishVars>>

FeedNext == FetchFeed

SpecFeed == FeedInit /\ [][FeedNext]_vars

Returned(i) == \E k \in DOMAIN rss_result.articles : rss_result.articles[k] = i

\* C17: the feed strategy returns exactly the entries of the window, both
\* of its days included: no entry dated outside [start_date, end_date] is
\* in the output, and no entry dated inside it that has enough text is
\* missing from it.
C17_ExactlyTheWindow ==
    rss_result.kind = "returned" =>
        \A i \in DOMAIN feed :
            feed[i].published = "parsed" =>
                /\ Returned(i) =>
                      (start_date <= feed[i].day /\ feed[i].day <= end_date)
                /\ (/\ start_date <= feed[i].day
                    /\ feed[i].day <= end_date
                    /\ feed[i].cleans
                    /\ feed[i].content_len > 50) => Returned(i)

\* C18: the quality gate drops an article exactly when its cleaned text is
\* shorter than 50 characters: of the entries of the window, the ones with
\* 50 characters or more are returned and the ones with 49 or fewer are not.
C18_GateAtFifty ==
    (/\ rss_result.kind = "returned"
     /\ \A i \in DOMAIN feed : feed[i].published # "none") =>
        \A i \in DOMAIN feed :
            (/\ feed[i].published = "parsed"
             /\ feed[i].cleans
             /\ start_date <= feed[i].day
             /\ feed[i].day <= end_date) =>
                (Returned(i) <=> feed[i].content_len >= 50)


(***************************************************************************)
(* The renderer as a function of its input list.                           *)
(***************************************************************************)
MaxRendered == 3

\* What a caller can hand to _generate_markdown: enriched records, well
\* typed or not, fallback records, and entries that are not dicts.
RenderEntries ==
    {CachedRecord(u) : u \in Urls}
    \cup {ProcessedArticle(Article(u), "badtypes") : u \in Urls}
    \cup {FallbackArticle(Article(u), "error") : u \in Urls}
    \cup {[CachedRecord(u) EXCEPT !.site = ""] : u \in Urls}
    \cup {NonDictEntry}

RenderInputs == UNION {[1..n -> RenderEntries] : n \in 0..MaxRendered}

RenderInit ==
    /\ now = 0
    /\ ticks = 0
    /\ saves = 0
    /\ files = [e \in Namespaces \X CacheKeys |-> NoFile("p1")]
    /\ written = [e \in Namespaces \X CacheKeys |-> -1]
    /\ lastOp = NoOp
    /\ EnrichIdle
    /\ ConcIdle
    /\ FetchIdle
    /\ RunIdle
    /\ PoolIdle
    /\ RerunIdle
    /\ feed = <<>>
    /\ rss_result = NotRun
    /\ md_input \in RenderInputs
    /\ md_result = NotRun
    /\ PublishIdle

\* One call of _generate_markdown on the list.
Render ==
    /\ md_result = NotRun
    /\ md_result' = _generate_markdown(md_input)
    /\ UNCHANGED <<feed, rss_result, md_input>>
    /\ UNCHANGED <<cacheVars, enrichVars, concVars, fetchVars, runVars,
                   poolVars, rerunVars, publishVars>>

RenderNext == Render

SpecRender == RenderInit /\ [][RenderNext]_vars

\* C19: for a non-empty input list, the count the report states equals the
\* number of item sections it contains.
C19_StatedCountIsSectionCount ==
    (md_input # <<>> /\ md_result.kind = "report") =>
        md_result.stated = Len(md_result.sections)

\* C20: _generate_markdown skips every entry that is not a dict without
\* raising (it raises only on an ill-typed record, never on account of a
\* non-dict entry), and the report has one section for each record entry,
\* in order, whether it precedes or follows a skipped entry.
C20_NonDictSkippedWithoutRaising ==
    md_result # NotRun =>
        /\ md_result.kind = "raised" <=>
              \E i \in DOMAIN md_input :
                  IsDict(md_input[i]) /\ md_input[i].persons = "bad"
        /\ md_result.kind = "report" =>
              /\ \A i \in DOMAIN md_input :
                    IsDict(md_input[i]) <=>
                       \E k \in DOMAIN md_result.sections :
                           md_result.sections[k] = i
              /\ \A k \in 1..(Len(md_result.sections) - 1) :
                    md_result.sections[k] < md_result.sections[k + 1]

\* A list with a non-dict entry between two records was rendered: two
\* sections, for the first and the third entry.
C20_Witness ==
    /\ Len(md_input) = 3
    /\ IsDict(md_input[1])
    /\ ~IsDict(md_input[2])
    /\ IsDict(md_input[3])
    /\ md_result.kind = "report"
    /\ md_result.sections = <<1, 3>>


(***************************************************************************)
(* The stages of a pipeline invocation.                                    *)
(***************************************************************************)
\* The positions of stage in the log.
CallsOf(log, stage) == {k \in DOMAIN log : log[k] = stage}

\* A file of the caches that is older than the TTL of its namespace.
Expired(fs, e, t) == fs[e].exists /\ t - fs[e].mtime > TTL(e[1])

\* C21: every pipeline invocation runs the expired-entry sweep exactly
\* once, over all three namespaces, and before any fetch or enrichment
\* work of that invocation starts: a stage log with a fetch or an
\* enrichment call has exactly one sweep, ahead of those calls, and right
\* after the sweep no namespace holds an expired file.
C21_SweepOnceBeforeWork ==
    /\ \A k \in DOMAIN stage_log :
          stage_log[k] \in {"fetch", "enrich"} =>
              /\ Cardinality(CallsOf(stage_log, "sweep")) = 1
              /\ \A j \in CallsOf(stage_log, "sweep") : j < k
    /\ rpc = "fetch" =>
          \A e \in DOMAIN files : ~Expired(files, e, now)


AllStages == <<"sweep", "fetch", "enrich", "publish">>

IsPrefix(a, b) == Len(a) <= Len(b) /\ a = SubSeq(b, 1, Len(a))

Called(stage) == CallsOf(stage_log, stage) # {}

\* C25: run_newsletter_task calls its stages in the order sweep, fetch,
\* enrichment, publish, each at most once; enrichment is called only with
\* at least one fetched article and publish only with a non-empty report,
\* and then the task ends with what publish gave; a task that returns
\* without publishing returns None, right after the fetch that returned
\* nothing or after the enrichment that returned the empty text.
C25_StagesInOrder ==
    entry = "run_newsletter_task" =>
        /\ IsPrefix(stage_log, AllStages)
        /\ Called("enrich") => articles_list # <<>>
        /\ Called("publish") =>
              /\ articles_list # <<>>
              /\ markdown_text.kind = "report"
              /\ rpc = "done"
              /\ run_result \in PublishOutcomes
        /\ (rpc = "done" /\ stage_log = <<"sweep", "fetch">>) =>
              run_result = "None" /\ articles_list = <<>>
        /\ (rpc = "done" /\ stage_log = <<"sweep", "fetch", "enrich">>
                         /\ markdown_text.kind # "raised") =>
              run_result = "None" /\ markdown_text.kind = "empty"
        /\ run_result = "doc_url" => Called("publish")

\* A task went through all four stages and returned the link.
C25_Witness ==
    /\ entry = "run_newsletter_task"
    /\ rpc = "done"
    /\ stage_log = AllStages
    /\ run_result = "doc_url"


\* Handling entry i of the feed fails: its date cannot be built (line 560)
\* or its content cannot be cleaned (line 598).
EntryFails(entries, i) ==
    entries[i].published = "none" \/ ~entries[i].cleans

\* C22: in the feed strategy a failure while handling one entry only skips
\* that entry: when some entry of the feed fails, every other entry that
\* is dated in the window and has sufficient text is still in the output.
C22_EntryFailureSkipsOnlyThatEntry ==
    rss_result.kind = "returned" =>
        \A j \in DOMAIN feed :
            EntryFails(feed, j) =>
                \A i \in DOMAIN feed \ {j} :
                    (/\ feed[i].published = "parsed"
                     /\ feed[i].cleans
                     /\ InRange(feed[i].day, start_date, end_date)
                     /\ EnoughText(feed[i].content_len)) => Returned(i)


(***************************************************************************)
(* Whole-source failures and the two attempts of the page crawl.           *)
(***************************************************************************)
\* The articles of site s in the list fetch_articles builds.
FromSite(list, s) == SelectSeq(list, LAMBDA a : a.site = s)

C30_DirectOnlyAfterProxyError ==
    \A s \in Sites :
        /\ tasks[s].direct_attempts <= 1
        /\ tasks[s].direct_attempts = 1 =>
              tasks[s].proxy_failure = "proxy_or_tls"


\* C24: within one run an article's URL is a unique key: no two articles
\* of the list fetch_articles returns have the same URL, whatever the
\* sources return.
C24_UrlsUniqueInRun ==
    fpc = "returned" =>
        \A i, j \in DOMAIN articles :
            i # j => articles[i].url # articles[j].url


(***************************************************************************)
(* publish_feishu_report (newsletter_tools.py, lines 1392-1621).           *)
(***************************************************************************)
MaxCollaborators == 2

OpenIds == {"ou1", "ou2"}

OpenIdLists == UNION {[1..n -> OpenIds] : n \in 0..MaxCollaborators}

\* How a call to the document service ends: resp.success(), a response
\* that is not a success, an exception.
CallOutcomes == {"ok", "failed", "raised"}

Call(name, arg, outcome) == [call |-> name, arg |-> arg, outcome |-> outcome]

\* A chat id as an argument and as the value of FEISHU_CHAT_ID; "None"
\* when not given or unset.
ChatIds == {"None", "oc_1"}

\* if chat_id is None: chat_id = os.getenv('FEISHU_CHAT_ID')
\* (run_newsletter.py, lines 106-107).
ChatIdOf(a, e) == IF a = "None" THEN e ELSE a

PublishInit ==
    /\ now = 0
    /\ ticks = 0
    /\ saves = 0
    /\ files = [e \in Namespaces \X CacheKeys |-> NoFile("p1")]
    /\ written = [e \in Namespaces \X CacheKeys |-> -1]
    /\ lastOp = NoOp
    /\ EnrichIdle
    /\ ConcIdle
    /\ FetchIdle
    /\ RunIdle
    /\ PoolIdle
    /\ RerunIdle
    /\ PureIdle
    /\ ppc = "create"
    /\ collaborator_openids \in OpenIdLists
    /\ env_openids \in OpenIdLists
    /\ openids = <<>>
    /\ api_log = <<>>
    /\ publish_result = "none"
    /\ chat_id \in {ChatIdOf(a, e) : a \in ChatIds, e \in ChatIds}

publishFrame == <<cacheVars, enrichVars, concVars, fetchVars, runVars,
                  poolVars, rerunVars, pureVars>>

\* The function that goes on after a document creation that failed.
AfterCreate_GoOn(outcome) == "grants"

\* Lines 1421-1425 and 1477-1479: a response that is not a success and an
\* exception both return None.
AfterCreate(outcome) == IF outcome = "ok" THEN "grants" ELSE "done"

\* Lines 1433-1438: the list passed in, the list of the environment when
\* that one is empty or None.
ChooseOpenIds(passed, from_env) == IF passed # <<>> THEN passed ELSE from_env

\* The loop that stops at the first grant that does not succeed.
AfterGrant_StopOnFailure(rest, outcome) ==
    IF outcome = "ok" THEN rest ELSE <<>>

\* Lines 1447-1470: whatever the grant did, the loop goes on with the next
\* id.
AfterGrant(rest, outcome) == rest

\* Lines 1415-1438: the document creation.
PublishCreate ==
    /\ ppc = "create"
    /\ \E outcome \in CallOutcomes :
          /\ api_log' = Append(api_log, Call("create", "", outcome))
          /\ IF AfterCreate(outcome) = "done"
             THEN /\ ppc' = "done"
                  /\ publish_result' = "None"
                  /\ UNCHANGED openids
             ELSE /\ ppc' = "grants"
                  /\ openids' = ChooseOpenIds(collaborator_openids, env_openids)
                  /\ UNCHANGED publish_result
    /\ UNCHANGED <<chat_id, collaborator_openids, env_openids>>
    /\ UNCHANGED publishFrame

\* Lines 1447-1470: one round of the grant loop.
PublishGrant ==
    /\ ppc = "grants"
    /\ openids # <<>>
    /\ \E outcome \in CallOutcomes :
          /\ api_log' = Append(api_log, Call("grant", Head(openids), outcome))
          /\ openids' = AfterGrant(Tail(openids), outcome)
    /\ UNCHANGED <<chat_id, ppc, collaborator_openids, env_openids, publish_result>>
    /\ UNCHANGED publishFrame

\* Lines 1484-1509: the conversion call, which is in no try block; None if
\* it is not a success, the link at once if it gave no blocks.
PublishConvert ==
    /\ ppc = "grants"
    /\ openids = <<>>
    /\ \E outcome \in CallOutcomes, blocks \in BOOLEAN :
          /\ (outcome # "ok" => ~blocks)
          /\ api_log' = Append(api_log, Call("convert", "", outcome))
          /\ CASE outcome = "raised" ->
                    ppc' = "done" /\ publish_result' = "raised"
               [] outcome = "failed" ->
                    ppc' = "done" /\ publish_result' = "None"
               [] outcome = "ok" /\ ~blocks ->
                    ppc' = "done" /\ publish_result' = "doc_url"
               [] OTHER ->
                    ppc' = "write" /\ UNCHANGED publish_result
    /\ UNCHANGED <<chat_id, collaborator_openids, env_openids, openids>>
    /\ UNCHANGED publishFrame

\* Lines 1530-1556: the blocks are written; a failure is only reported.
PublishWrite ==
    /\ ppc = "write"
    /\ \E outcome \in CallOutcomes :
          api_log' = Append(api_log, Call("write", "", outcome))
    /\ ppc' = "message"
    /\ UNCHANGED <<chat_id, collaborator_openids, env_openids, openids, publish_result>>
    /\ UNCHANGED publishFrame

\* Lines 1561-1621: the card message, then the link is returned.
PublishMessage ==
    /\ ppc = "message"
    /\ \E outcome \in CallOutcomes :
          api_log' = Append(api_log, Call("message", chat_id, outcome))
    /\ ppc' = "done"
    /\ publish_result' = "doc_url"
    /\ UNCHANGED <<chat_id, collaborator_openids, env_openids, openids>>
    /\ UNCHANGED publishFrame

PublishNext ==
    \/ PublishCreate
    \/ PublishGrant
    \/ PublishConvert
    \/ PublishWrite
    \/ PublishMessage

SpecPublish == PublishInit /\ [][PublishNext]_vars

DocumentCreated ==
    /\ api_log # <<>>
    /\ api_log[1] = Call("create", "", "ok")

\* C26: publish_feishu_report returns None when the document creation
\* fails, by a response that is not a success or by an exception, and then
\* has made no other call (no grant, conversion, block write or message);
\* it returns a document link only when a document was created.
C26_NoDocumentNoCalls ==
    /\ (api_log # <<>> /\ api_log[1].outcome # "ok") =>
          /\ ppc = "done"
          /\ publish_result = "None"
          /\ Len(api_log) = 1
    /\ publish_result = "doc_url" => DocumentCreated
    /\ \A k \in DOMAIN api_log :
          api_log[k].call # "create" => DocumentCreated

\* The creation raised and the function has returned None.
C26_Witness ==
    /\ ppc = "done"
    /\ publish_result = "None"
    /\ api_log = <<Call("create", "", "raised")>>

\* The ids of the grant calls made, in order.
GrantedIds ==
    LET g == SelectSeq(api_log, LAMBDA c : c.call = "grant")
    IN  [k \in DOMAIN g |-> g[k].arg]

\* C27: after the document is created there is exactly one grant call per
\* id of the list passed in (of the environment list when none is passed,
\* none at all when both are empty), whatever the earlier grants did: a
\* grant that failed or raised is followed by the grants of the remaining
\* ids, and the link is still returned when the later steps go through.
C27_OneGrantPerCollaborator ==
    LET expected == IF collaborator_openids # <<>>
                    THEN collaborator_openids ELSE env_openids
    IN  /\ ppc = "grants" => GrantedIds \o openids = expected
        /\ (ppc \in {"write", "message"}
            \/ (ppc = "done" /\ DocumentCreated)) => GrantedIds = expected
        /\ ~DocumentCreated => GrantedIds = <<>>
        /\ (/\ ppc = "done"
            /\ \E k \in DOMAIN api_log : api_log[k] = Call("convert", "", "ok"))
              => publish_result = "doc_url"

\* Two ids were passed; the grant of the first raised, the grant of the
\* second was made and failed, and the link was returned.
C27_Witness ==
    /\ ppc = "done"
    /\ publish_result = "doc_url"
    /\ Len(collaborator_openids) = 2
    /\ api_log[2] = Call("grant", collaborator_openids[1], "raised")
    /\ api_log[3] = Call("grant", collaborator_openids[2], "failed")


(***************************************************************************)
(* The partition of the enrichment input (steps 1 and 2).                  *)
(***************************************************************************)
RECURSIVE Flatten(_)
Flatten(seqs) == IF seqs = <<>> THEN <<>> ELSE Head(seqs) \o Flatten(Tail(seqs))

Occurrences(seq, x) == Cardinality({k \in DOMAIN seq : seq[k] = x})

\* C28: steps 1 and 2 partition the input.  Right after the cache split
\* every article with a valid cached record is out of the work queue and
\* its record is among the cached ones, and every other article is in the
\* queue as often as in the input; the batches, once made, are the queue
\* cut in order into slices of batch_size items, the last one possibly
\* shorter, so that every miss is in exactly one batch and no cached
\* article in any; and the cached records head the output.
C28_PartitionIntoBatches ==
    /\ epc = "client" =>
          /\ Len(cached_articles) + Len(articles_to_process)
                = Len(articles_list)
          /\ \A k \in DOMAIN articles_list :
                LET a == articles_list[k]
                    c == load_ai_from_cache(files, a.url, now, FALSE)
                IN  IF c.hit
                    THEN /\ Occurrences(articles_to_process, a) = 0
                         /\ Occurrences(cached_articles, c.value)
                               = Occurrences(articles_list, a)
                    ELSE Occurrences(articles_to_process, a)
                            = Occurrences(articles_list, a)
    /\ batches # <<>> =>
          /\ Flatten(batches) = articles_to_process
          /\ \A k \in DOMAIN batches :
                /\ Len(batches[k]) >= 1
                /\ Len(batches[k]) <= batch_size
                /\ k < Len(batches) => Len(batches[k]) = batch_size
          /\ \A k \in DOMAIN batches :
                \A j \in DOMAIN batches[k], c \in DOMAIN cached_articles :
                    cached_articles[c].url # batches[k][j].url
    /\ (epc = "done" /\ markdown_text.kind # "empty") =>
          IsPrefix(cached_articles, all_processed_articles)

\* An input of four articles, one of them with a cached record, was split
\* into that record and one full batch of the three others.
C28_Witness ==
    /\ epc = "collect"
    /\ Len(articles_list) = 4
    /\ Len(cached_articles) = 1
    /\ Len(batches) = 1
    /\ Len(batches[1]) = batch_size


\* C29: when the service reply and the submitted batch differ in length,
\* exactly min(reply length, batch length) results are mapped, the i-th
\* result to the i-th submitted article, and surplus results are ignored;
\* every record produced has the URL of the submitted article it is for.
C29_MinLengthPositional ==
    \A i \in DOMAIN bwork :
        (bstate[i] = "done" /\ bwork[i].reply.shape \in {"array", "object"}) =>
            LET todo == bwork[i].todo
                m == IF bwork[i].reply.n < Len(todo)
                     THEN bwork[i].reply.n ELSE Len(todo)
            IN  /\ Len(bwork[i].new) = m
                /\ \A k \in 1..m :
                      /\ bwork[i].new[k].url = todo[k].url
                      /\ bwork[i].new[k].origin = "ai"
                /\ bresult[i] = bwork[i].cached \o bwork[i].new

\* A batch of three articles got one result and mapped it to its first
\* article; a batch of one article got two results and mapped the first.
C29_Witness ==
    \E i, j \in DOMAIN bwork :
        /\ bstate[i] = "done"
        /\ bstate[j] = "done"
        /\ bwork[i].reply.shape = "array"
        /\ bwork[j].reply.shape = "array"
        /\ Len(bwork[i].todo) = 3
        /\ bwork[i].reply.n = 1
        /\ Len(bwork[i].new) = 1
        /\ Len(bwork[j].todo) = 1
        /\ bwork[j].reply.n = 2
        /\ Len(bwork[j].new) = 1


\* C31: in the page crawl every candidate link of a source ends in exactly
\* one of 'articles' and 'failed_articles', the latter with a reason: while
\* the loop runs the two lists and the links still to take make up the
\* candidates, in order, and after it the two counts add up to
\* total_entries; a failing link does not keep the later ones from being
\* taken.
C31_EveryLinkInOneList ==
    \A s \in Sites :
        LET t == tasks[s]
            done_links == SubSeq(t.candidates, 1, Len(t.candidates) - Len(t.links))
        IN  (t.kind = "html" /\ ~t.source_failed) =>
                /\ Len(t.articles) + Len(t.failed_articles) + Len(t.links)
                      = Len(t.candidates)
                /\ t.total_entries = Len(t.candidates)
                /\ \A k \in DOMAIN done_links :
                      Occurrences([i \in DOMAIN t.articles |-> t.articles[i].url],
                                  done_links[k])
                      + Occurrences([i \in DOMAIN t.failed_articles |->
                                         t.failed_articles[i].url],
                                    done_links[k]) = 1
                /\ \A k \in DOMAIN t.failed_articles :
                      t.failed_articles[k].error # ""
                /\ t.pc \in {"finally", "env_cleared", "done"} => t.links = <<>>

\* A page crawl is over whose first link failed and whose second link gave
\* an article.
C31_Witness ==
    \E s \in Sites :
        /\ tasks[s].pc = "done"
        /\ Len(tasks[s].candidates) = 2
        /\ tasks[s].failed_articles
              = <<FailedArticle(s, tasks[s].candidates[1])>>
        /\ tasks[s].articles
              = <<FetchedArticle(s, tasks[s].candidates[2])>>


\* days_back was given together with start_date or end_date.
ArgsConflict_Spec ==
    /\ args.days_back # "None"
    /\ (args.start_date # "None" \/ args.end_date # "None")

\* C32: run_newsletter_task called with days_back together with start_date
\* or end_date raises ValueError before any stage runs: no sweep, fetch,
\* enrichment or publish call is made and no file is written; and a run
\* that ended with ValueError made none of these calls either.
C32_ConflictRaisesFirst ==
    /\ (entry = "run_newsletter_task" /\ ArgsConflict_Spec /\ rpc # "start") =>
          /\ rpc = "done"
          /\ run_result = "ValueError"
          /\ stage_log = <<>>
          /\ ~fetch_ran
          /\ service_log = <<>>
          /\ out_files = {}
    /\ run_result = "ValueError" => stage_log = <<>> /\ out_files = {}

\* A call with days_back = 0 and a start date has ended with ValueError.
C32_Witness ==
    /\ rpc = "done"
    /\ run_result = "ValueError"
    /\ args.days_back = "0"
    /\ args.start_date # "None"


\* C33: when no chat id is configured (the argument is None and
\* FEISHU_CHAT_ID is unset) the publishing step only creates the document
\* and makes no message-send call.
C33_NoChatNoMessage ==
    chat_id = "None" =>
        \A k \in DOMAIN api_log : api_log[k].call # "message"


\* The enrichment cache holds a valid record for u: a read at time t is a
\* hit and the record has no error marker.
ValidEntry(fs, u, t) ==
    /\ load_ai_from_cache(fs, u, t, FALSE).hit
    /\ load_ai_from_cache(fs, u, t, FALSE).value.error = ""

\* C34: a valid (non-error, unexpired) enrichment cache entry is never
\* replaced by a fallback record, in every interleaving of the batches, the
\* runs where one URL is in two batches and a service call throws included:
\* no step turns a valid entry into one that holds a fallback record.
C34_ValidEntryNeverReplaced ==
    [][\A u \in Urls :
          ValidEntry(files, u, now) =>
              files'[<<"ai", u>>].payload.origin # "fallback"]_vars


\* C35: in every interleaving of the concurrent page-crawl tasks, once all
\* tasks of fetch_articles have completed, the process environment (the
\* proxy variables included) equals the environment at the moment the tasks
\* were submitted.
C35_EnvironmentAsSubmitted ==
    fpc = "returned" => env = submit_env


(***************************************************************************)
(* The proxy settings over two runs in one process: fetch_articles of the  *)
(* first run (enable_proxy_for_web_scraping, line 468), get_feishu_client  *)
(* of its publishing step (clear_all_proxy, line 373), fetch_articles of   *)
(* the second run.                                                         *)
(***************************************************************************)
\* The environments a process can be started in: each of these variables
\* set or not.
StartEnvs ==
    {[k \in proxy_vars |->
        IF k \in on
        THEN (IF k = "NO_PROXY" THEN "localhost" ELSE "http://proxy")
        ELSE ""] :
     on \in SUBSET {"HTTP_PROXY", "HTTPS_PROXY", "ALL_PROXY", "http_proxy",
                    "NO_PROXY"}}

ProxyInit ==
    /\ now = 0
    /\ ticks = 0
    /\ saves = 0
    /\ files = [e \in Namespaces \X CacheKeys |-> NoFile("p1")]
    /\ written = [e \in Namespaces \X CacheKeys |-> -1]
    /\ lastOp = NoOp
    /\ EnrichIdle
    /\ ConcIdle
    /\ RunIdle
    /\ PoolIdle
    /\ RerunIdle
    /\ PureIdle
    /\ PublishIdle
    /\ env \in StartEnvs
    /\ _original_proxy_settings = [k \in saved_vars |-> env[k]]
    /\ submit_env = EmptyEnv
    /\ rss_feeds = {}
    /\ tasks = [s \in Sites |-> NewTask("unsubmitted")]
    /\ fpc = "start"
    /\ finished = <<>>
    /\ ncollected = 0
    /\ articles = <<>>
    /\ req_log = {}

\* fetch_articles, line 468, in the first run and in the second;
\* submit_env keeps the environment of the first run.
ProxySubmit ==
    /\ fpc \in {"start", "cleared"}
    /\ env' = enable_proxy_for_web_scraping(env, _original_proxy_settings)
    /\ submit_env' = IF fpc = "start" THEN env' ELSE submit_env
    /\ fpc' = IF fpc = "start" THEN "first_run" ELSE "second_run"
    /\ UNCHANGED <<tasks, finished, ncollected, articles, req_log>>
    /\ UNCHANGED fetchFrame
    /\ UNCHANGED cacheVars
    /\ UNCHANGED otherThanFetch

\* get_feishu_client (lines 369-390) in the publishing step of the first
\* run.
ProxyClear ==
    /\ fpc = "first_run"
    /\ env' = clear_all_proxy(env)
    /\ fpc' = "cleared"
    /\ UNCHANGED <<submit_env, tasks, finished, ncollected, articles, req_log>>
    /\ UNCHANGED fetchFrame
    /\ UNCHANGED cacheVars
    /\ UNCHANGED otherThanFetch

ProxyNext ==
    \/ ProxySubmit
    \/ ProxyClear

SpecProxy == ProxyInit /\ [][ProxyNext]_vars

\* C36: enable_proxy_for_web_scraping undoes clear_all_proxy: after
\* clear_all_proxy followed by enable_proxy_for_web_scraping the proxy
\* variables (HTTP_PROXY, HTTPS_PROXY, ALL_PROXY, NO_PROXY, no_proxy and the
\* lower-case variants) are as they were before the two, so the second run
\* fetches in the network context of the first.
C36_EnableUndoesClear ==
    fpc = "second_run" =>
        /\ env = submit_env
        /\ Context(env, TRUE) = Context(submit_env, TRUE)


\* C37: the sweep and the read agree on expiry and the sweep leaves live
\* entries alone: a sweep removes only entries whose age exceeds the TTL of
\* their own namespace and leaves every other entry, of any namespace,
\* unchanged, so it never removes an entry that a read at the same instant
\* would return as a hit; a sweep none of whose file operations fails
\* removes all the entries whose age exceeds their TTL.
C37_SweepRemovesOnlyExpired ==
    [][lastOp'.op = "sweep" =>
          \A e \in DOMAIN files :
             /\ files'[e] # files[e] =>
                   Expired(files, e, now) /\ ~files'[e].exists
             /\ LoadFrom(e[1], files, e[2], now, FALSE).hit =>
                   files'[e] = files[e]
             /\ (lastOp'.ok /\ Expired(files, e, now)) => ~files'[e].exists]_vars

\* A sweep without a failure has just removed an html entry that was
\* written more than HTML_CACHE_TTL and less than AI_CACHE_TTL ago.
C37_Witness ==
    /\ lastOp.op = "sweep"
    /\ lastOp.ok
    /\ \E u \in CacheKeys :
          /\ written[<<"html", u>>] >= 0
          /\ now - written[<<"html", u>>] > HTML_CACHE_TTL
          /\ now - written[<<"html", u>>] < AI_CACHE_TTL
          /\ ~files[<<"html", u>>].exists


\* C38: the article count that run_newsletter_task reports after
\* enrichment, the number of '\n## ' headings of the report text, equals
\* the number of enriched records rendered in the report, for every report,
\* those with the source-sites section included.
C38_CountIsRenderedRecords ==
    (entry = "run_newsletter_task" /\ rpc \in {"publish", "done"}
       /\ markdown_text.kind = "report") =>
        article_count = Len(markdown_text.sections)

====
